---------------------------- MODULE Spec2Model ----------------------------
(***************************************************************************)
(* A model of the alfred assistant (arulster17/alfred):                    *)
(*   - the Calendar Gateway   src/src/services/calendar_service.py         *)
(*   - the Calendar Feature   src/src/features/calendar_feature.py         *)
(*   - the Conversation Feature keyword predicate                          *)
(*                            src/src/features/conversation_feature.py     *)
(*   - the Intent Router, whose code (services/intent_router.py) is not in *)
(*     the source tree and is modelled from spec.md section 4.1.           *)
(*                                                                         *)
(* Python values are modelled as follows.  A dict is a function whose      *)
(* DOMAIN is the set of keys present; a list is a sequence; None, and      *)
(* values whose Python type decides the control flow, are tagged records   *)
(* [py |-> <type>, v |-> <value>].  A call that may raise returns a record *)
(* with a field exc, "none" when it returned normally, and the external    *)
(* calls it issued in a field calls.                                       *)
(***************************************************************************)
EXTENDS Integers, Sequences, FiniteSets, TLC

VARIABLES
    \* ---- process state of the calendar feature and gateway
    client,       \* calendar_feature._client: "None" or the client handle
    apiKey,       \* os.getenv('GOOGLE_GEMINI_API_KEY'): "" or the key
    tokenFile,    \* per credential pair, the pickled token's state on disk
    credFile,     \* per credential pair, whether the credentials json exists
    \* ---- one CalendarFeature.handle call
    pc,           \* "idle" or "done"
    request,      \* the inbound message with the model's and provider's answers
    outcome,      \* what handle did: reply / raised exception / calls / parsed
    \* ---- one Gateway operation against the provider's calendar
    calendar,     \* the provider's store: [events: id -> event, writes: count]
    gpc,          \* "idle" or "done"
    gop,          \* the Gateway operation called, with its arguments
    gout,         \* what the operation did: result / exception / calls
    \* ---- one IntentRouter.route call
    rpc,          \* "idle" or "done"
    rin,          \* the message, the model's answer, the peers' predicates
    rout,         \* what route returned
    \* ---- _get_client calls of the host's threads
    conv_client,  \* conversation_feature._client: "None" or a client handle
    threads,      \* per thread, its position in _get_client and its locals
    constructed,  \* per module, how many times genai.Client(...) was called
    \* ---- the webhook transport (app.py)
    wpc,          \* "idle" or "done"
    wreq,         \* the HTTP request with what the message handler will do
    wresp,        \* the HTTP response, with whether the handler was invoked
    \* ---- the bot transport (bot.py)
    discordToken, \* os.getenv('DISCORD_BOT_TOKEN'): "None", "" or the token
    mpc,          \* "stopped", "running" or "exited"
    mout,         \* what main did: lines printed / calls made / exception
    \* ---- one ConversationFeature.handle call
    cpc,          \* "idle" or "done"
    cin,          \* the message with the model's answer
    cout,         \* what handle did: reply / raised exception / calls
    \* ---- an earlier CalendarFeature.handle call, kept for comparison
    earlier       \* its inputs, the bot token before it, and what it did

processVars == <<client, apiKey, tokenFile, credFile>>
handleVars  == <<pc, request, outcome>>
gatewayVars == <<calendar, gpc, gop, gout>>
routeVars   == <<rpc, rin, rout>>
clientVars  == <<conv_client, threads, constructed>>
webhookVars == <<wpc, wreq, wresp>>
mainVars    == <<discordToken, mpc, mout>>
chatVars    == <<cpc, cin, cout>>
hostVars    == <<wpc, wreq, wresp, discordToken, mpc, mout, cpc, cin, cout,
                 earlier>>
vars == <<client, apiKey, tokenFile, credFile, pc, request, outcome,
          calendar, gpc, gop, gout, rpc, rin, rout,
          conv_client, threads, constructed,
          wpc, wreq, wresp, discordToken, mpc, mout, cpc, cin, cout,
          earlier>>

-----------------------------------------------------------------------------
(* Bounds of the model.                                                    *)

\* Longest list of event drafts in one create request.
MaxBatch == 3
\* Longest list of events one search returns.
MaxMatches == 2

-----------------------------------------------------------------------------
(* Python helpers.                                                         *)

None == [py |-> "None"]

\* dict.get(key, default)
Get(d, k, default) == IF k \in DOMAIN d THEN d[k] ELSE default

\* d with d[k] = v assigned
Put(d, k, v) == [x \in DOMAIN d \cup {k} |-> IF x = k THEN v ELSE d[x]]


EmptyDict == [x \in {} |-> None]

\* A list that stands where None may stand too.
List(seq) == [py |-> "list", v |-> seq]

-----------------------------------------------------------------------------
(* datetime: a datetime object is the number of minutes since midnight of  *)
(* 2026-02-18, tagged "datetime"; strptime and isoformat are the two       *)
(* conversions the code applies, between the model's "YYYY-MM-DD HH:MM"    *)
(* text, the datetime and the provider's ISO text.                         *)

DateTime(minutes) == [py |-> "datetime", v |-> minutes]
Str(text) == [py |-> "str", v |-> text]

\* datetime.strptime(text, '%Y-%m-%d %H:%M') on a value of the parsed JSON:
\* TypeError when the value is not a str, ValueError when the text does not
\* match the format.
strptime(x) ==
    IF x.py # "str" THEN [exc |-> "TypeError", value |-> None]
    ELSE IF x.v = "2026-02-18 14:00" THEN [exc |-> "none", value |-> DateTime(840)]
    ELSE IF x.v = "2026-02-18 15:00" THEN [exc |-> "none", value |-> DateTime(900)]
    ELSE IF x.v = "2026-02-18 16:00" THEN [exc |-> "none", value |-> DateTime(960)]
    ELSE [exc |-> "ValueError", value |-> None]

\* x.isoformat(): AttributeError when x is not a datetime (a str has no
\* isoformat).
isoformat(x) ==
    IF x.py # "datetime" THEN [exc |-> "AttributeError", text |-> ""]
    ELSE IF x.v = 840 THEN [exc |-> "none", text |-> "2026-02-18T14:00:00"]
    ELSE IF x.v = 900 THEN [exc |-> "none", text |-> "2026-02-18T15:00:00"]
    ELSE [exc |-> "none", text |-> "2026-02-18T16:00:00"]

-----------------------------------------------------------------------------
(* Calendar Gateway: credentials.                                          *)

\* The two credential/token pairs (USER_*, BOT_* paths and scopes).
Pairs == {"user", "bot"}

\* The state of a pickled token: no file; creds.valid; not valid, expired
\* and with a refresh token; not valid otherwise.
TokenStates == {"none", "valid", "expired_refreshable", "invalid"}

\* _get_service without the save of lines 67-69: the refreshed or newly
\* authorized credential is used but not written to the token path.
_get_service_unsaved(p, token, creds, authOk) ==
    IF token = "valid"
    THEN [exc |-> "none", value |-> p, token |-> token,
          calls |-> << [api |-> "build", via |-> p] >>]
    ELSE IF token = "expired_refreshable"
    THEN IF authOk
         THEN [exc |-> "none", value |-> p, token |-> token,
               calls |-> << [api |-> "refresh", via |-> p],
                            [api |-> "build", via |-> p] >>]
         ELSE [exc |-> "RefreshError", value |-> "none", token |-> token,
               calls |-> << [api |-> "refresh", via |-> p] >>]
    ELSE IF ~creds
    THEN [exc |-> "FileNotFoundError", value |-> "none", token |-> token,
          calls |-> << >>]
    ELSE IF authOk
    THEN [exc |-> "none", value |-> p, token |-> token,
          calls |-> << [api |-> "flow", via |-> p],
                       [api |-> "build", via |-> p] >>]
    ELSE [exc |-> "FlowError", value |-> "none", token |-> token,
          calls |-> << [api |-> "flow", via |-> p] >>]

\* _get_service(credentials_path, token_path, scopes, service_type), for the
\* credential pair p.  token: the token file's state; creds: whether the
\* credentials file exists; authOk: whether the refresh / the interactive
\* flow the call starts succeeds.  Returns the service handle (value: the
\* pair it was built from), the token file's state afterwards and the steps
\* taken.
_get_service(p, token, creds, authOk) ==
    IF token = "valid"
    THEN [exc |-> "none", value |-> p, token |-> token,
          calls |-> << [api |-> "build", via |-> p] >>]
    ELSE IF token = "expired_refreshable"
    THEN IF authOk
         THEN [exc |-> "none", value |-> p, token |-> "valid",
               calls |-> << [api |-> "refresh", via |-> p],
                            [api |-> "dump", via |-> p],
                            [api |-> "build", via |-> p] >>]
         ELSE [exc |-> "RefreshError", value |-> "none", token |-> token,
               calls |-> << [api |-> "refresh", via |-> p] >>]
    ELSE IF ~creds
    THEN [exc |-> "FileNotFoundError", value |-> "none", token |-> token,
          calls |-> << >>]
    ELSE IF authOk
    THEN [exc |-> "none", value |-> p, token |-> "valid",
          calls |-> << [api |-> "flow", via |-> p],
                       [api |-> "dump", via |-> p],
                       [api |-> "build", via |-> p] >>]
    ELSE [exc |-> "FlowError", value |-> "none", token |-> token,
          calls |-> << [api |-> "flow", via |-> p] >>]

\* get_read_service(): the user (read-only) pair.
get_read_service(tokens, creds, authOk) ==
    _get_service("user", tokens["user"], creds["user"], authOk)

\* A write service built from the user pair's paths.
WriteServiceFromUserPair(tokens, creds, authOk) ==
    _get_service("user", tokens["user"], creds["user"], authOk)

\* get_write_service(): the bot pair.
get_write_service(tokens, creds, authOk) ==
    _get_service("bot", tokens["bot"], creds["bot"], authOk)

\* get_calendar_service(): legacy, the write service.
get_calendar_service(tokens, creds, authOk) ==
    get_write_service(tokens, creds, authOk)

-----------------------------------------------------------------------------
(* Calendar Gateway: operations.  Each takes the token and credentials     *)
(* files' state and the provider's answers to the calls it issues, and     *)
(* returns its result together with the calls issued (calls) and the bot   *)
(* token file's state afterwards (token).  The part of an operation that   *)
(* follows the service lookup is an operator of its own, given the lookup's*)
(* result svc.                                                             *)

TimeZone == "America/Los_Angeles"

ReturnT(v, cs, t) == [exc |-> "none", value |-> v, calls |-> cs, token |-> t]
RaiseT(e, cs, t)  == [exc |-> e, value |-> None, calls |-> cs, token |-> t]

\* {'dateTime': x.isoformat(), 'timeZone': 'America/Los_Angeles'}
TimeField(x) == [dateTime |-> isoformat(x).text, timeZone |-> TimeZone]

\* The optional fields copied when present, with no default for reminders.
CopyFieldIfPresent(body, event_data, f) ==
    IF f \in DOMAIN event_data
    THEN Put(body, f, IF f = "recurrence" THEN << event_data[f] >>
                      ELSE event_data[f])
    ELSE body

\* The optional fields create_calendar_event copies (lines 145-164): body
\* with field f of event_data added when present.
CopyField(body, event_data, f) ==
    IF f \in DOMAIN event_data
    THEN Put(body, f, IF f = "recurrence" THEN << event_data[f] >>
                      ELSE event_data[f])
    ELSE IF f = "reminders" THEN Put(body, f, [useDefault |-> TRUE])
    ELSE body

\* The event body create_calendar_event builds from event_data (lines 132-164).
CreateBody(event_data) ==
    CopyField(
        CopyField(
            CopyField(
                CopyField([summary |-> event_data["summary"],
                           start |-> TimeField(event_data["start"]),
                           end   |-> TimeField(event_data["end"])],
                          event_data, "description"),
                event_data, "location"),
            event_data, "recurrence"),
        event_data, "reminders")

\* An insert that is tried a second time when it fails.
InsertTwice(svc, body, prov) ==
    IF prov.ok
    THEN ReturnT(Put(body, "id", prov.id),
                 Append(svc.calls, [api |-> "insert", via |-> svc.value,
                                    body |-> body, ok |-> TRUE]),
                 svc.token)
    ELSE RaiseT("HttpError",
                svc.calls \o << [api |-> "insert", via |-> svc.value,
                                  body |-> body, ok |-> FALSE],
                                [api |-> "insert", via |-> svc.value,
                                  body |-> body, ok |-> FALSE] >>,
                svc.token)

\* service.events().insert(calendarId, body).execute(): the created event is
\* the body with the id the provider assigned.
Insert(svc, body, prov) ==
    IF prov.ok
    THEN ReturnT(Put(body, "id", prov.id),
                 Append(svc.calls, [api |-> "insert", via |-> svc.value,
                                    body |-> body, ok |-> TRUE]),
                 svc.token)
    ELSE RaiseT("HttpError",
                Append(svc.calls, [api |-> "insert", via |-> svc.value,
                                   body |-> body, ok |-> FALSE]),
                svc.token)

\* create_calendar_event from line 131 on, with the service svc.
CreateWith(svc, event_data, prov) ==
    IF svc.exc # "none" THEN RaiseT(svc.exc, svc.calls, svc.token)
    ELSE IF {"summary", "start", "end"} \ DOMAIN event_data # {}
    THEN RaiseT("KeyError", svc.calls, svc.token)
    ELSE IF isoformat(event_data["start"]).exc # "none"
            \/ isoformat(event_data["end"]).exc # "none"
    THEN RaiseT("AttributeError", svc.calls, svc.token)
    ELSE Insert(svc, CreateBody(event_data), prov)

\* create_calendar_event(event_data).  prov: the provider's answer to the
\* insert, [ok, id].
create_calendar_event(event_data, tokens, creds, authOk, prov) ==
    CreateWith(get_write_service(tokens, creds, authOk), event_data, prov)

\* The cap on the result set search_events asks for by default.
max_results == 100

\* service.events().list(**params).execute().get('items', [])
ListWith(svc, query, cap, prov) ==
    IF svc.exc # "none" THEN RaiseT(svc.exc, svc.calls, svc.token)
    ELSE IF prov.ok
    THEN ReturnT(prov.items,
                 Append(svc.calls, [api |-> "list", via |-> svc.value,
                                    q |-> query, maxResults |-> cap,
                                    singleEvents |-> TRUE,
                                    orderBy |-> "startTime",
                                    timeMin |-> "now", ok |-> TRUE]),
                 svc.token)
    ELSE RaiseT("HttpError",
                Append(svc.calls, [api |-> "list", via |-> svc.value,
                                   q |-> query, maxResults |-> cap,
                                   singleEvents |-> TRUE,
                                   orderBy |-> "startTime",
                                   timeMin |-> "now", ok |-> FALSE]),
                svc.token)

\* search_events(query): one list call, restricted to events from now on and
\* ordered by start time.  prov: the provider's answer, [ok, items].
search_events(query, tokens, creds, authOk, prov) ==
    ListWith(get_write_service(tokens, creds, authOk), query, max_results, prov)

\* The fields of an event modify_event overlays.
PatchFields ==
    {"summary", "description", "location", "start", "end", "recurrence", "reminders"}

\* The value modify_event assigns to field f of the event from updates[f]
\* (lines 246-271).
PatchValue(f, updates) ==
    IF f \in {"start", "end"} THEN TimeField(updates[f])
    ELSE IF f = "recurrence" THEN << updates[f] >>
    ELSE updates[f]

\* A body that holds the id and the patch alone.
ApplyUpdatesToEmpty(event, updates) ==
    [f \in {"id"} \cup (PatchFields \cap DOMAIN updates) |->
        IF f = "id" THEN event[f] ELSE PatchValue(f, updates)]

\* The event modify_event writes back: the fetched event with the fields
\* present in updates overlaid.
ApplyUpdates(event, updates) ==
    [f \in DOMAIN event \cup (PatchFields \cap DOMAIN updates) |->
        IF f \in PatchFields \cap DOMAIN updates
        THEN PatchValue(f, updates) ELSE event[f]]

\* service.events().update(calendarId, eventId, body).execute()
Update(svc, calls, event_id, body, prov) ==
    IF prov.updateOk
    THEN ReturnT(body,
                 Append(calls, [api |-> "update", via |-> svc.value,
                                eventId |-> event_id, body |-> body,
                                ok |-> TRUE]),
                 svc.token)
    ELSE RaiseT("HttpError",
                Append(calls, [api |-> "update", via |-> svc.value,
                               eventId |-> event_id, body |-> body,
                               ok |-> FALSE]),
                svc.token)

\* modify_event from line 245 on: the get has been issued (calls) and has
\* returned prov.event.
PatchWith(svc, calls, event_id, updates, prov) ==
    IF updates = None
    THEN RaiseT("TypeError", calls, svc.token)
    ELSE IF \E f \in {"start", "end"} \cap DOMAIN updates :
                isoformat(updates[f]).exc # "none"
    THEN RaiseT("AttributeError", calls, svc.token)
    ELSE Update(svc, calls, event_id, ApplyUpdates(prov.event, updates), prov)

\* modify_event from line 240 on, with the service svc.
ModifyWith(svc, event_id, updates, prov) ==
    IF svc.exc # "none" THEN RaiseT(svc.exc, svc.calls, svc.token)
    ELSE IF ~prov.getOk
    THEN RaiseT("HttpError",
                Append(svc.calls, [api |-> "get", via |-> svc.value,
                                   eventId |-> event_id, ok |-> FALSE,
                                   event |-> None]),
                svc.token)
    ELSE PatchWith(svc,
                   Append(svc.calls, [api |-> "get", via |-> svc.value,
                                      eventId |-> event_id, ok |-> TRUE,
                                      event |-> prov.event]),
                   event_id, updates, prov)

\* modify_event(event_id, updates).  updates is a dict or None.  prov: the
\* provider's answers, [getOk, event, updateOk].
modify_event(event_id, updates, tokens, creds, authOk, prov) ==
    ModifyWith(get_write_service(tokens, creds, authOk), event_id, updates, prov)

\* list_upcoming_events(max_results=10): one list call, through
\* get_calendar_service.
list_upcoming_events(tokens, creds, authOk, prov) ==
    ListWith(get_calendar_service(tokens, creds, authOk), "", 10, prov)

-----------------------------------------------------------------------------
(* Structured Extractor: the model's text.                                 *)
(*                                                                         *)
(* The text of a model response is a sequence of tokens:                   *)
(*   "FENCE" three backticks            "json"  the word json              *)
(*   "\n"    white space                "prose" any other text             *)
(*   "{..}"  the serialisation of a JSON document that holds no fence      *)
(*   "{.."   "..}"   the two parts of the serialisation of a JSON document *)
(*           one of whose strings holds a fence: "{..", "FENCE", "..}"     *)
(* A response carries, beside its text, the value (doc) the document in    *)
(* its text stands for.                                                    *)

Fence == "FENCE"
Space == "\n"

\* A string value that holds three backticks.
FenceText == "see FENCE notes FENCE"

\* str.startswith
startswith(text, prefix) ==
    /\ Len(text) >= Len(prefix)
    /\ SubSeq(text, 1, Len(prefix)) = prefix

\* str.find, 1-based: the first place sep occurs in text, 0 when it does not.
find(text, sep) ==
    LET at == {i \in 1..(Len(text) - Len(sep) + 1) :
                  SubSeq(text, i, i + Len(sep) - 1) = sep}
    IN  IF at = {} THEN 0 ELSE CHOOSE i \in at : \A j \in at : i <= j

\* text.split(sep)[0]
split0(text, sep) ==
    LET i == find(text, sep) IN
    IF i = 0 THEN text ELSE SubSeq(text, 1, i - 1)

\* text.split(sep)[1], for a text in which sep occurs
split1(text, sep) ==
    LET i == find(text, sep) IN
    split0(SubSeq(text, i + Len(sep), Len(text)), sep)

RECURSIVE lstrip(_)
lstrip(text) ==
    IF text # << >> /\ Head(text) = Space THEN lstrip(Tail(text)) ELSE text

RECURSIVE rstrip(_)
rstrip(text) ==
    IF text # << >> /\ text[Len(text)] = Space
    THEN rstrip(SubSeq(text, 1, Len(text) - 1)) ELSE text

\* str.strip
strip(text) == rstrip(lstrip(text))

\* Lines 233-237: remove the markdown fence if present.
StripFence(response_text) ==
    IF startswith(response_text, << Fence, "json" >>)
    THEN strip(split0(split1(response_text, << Fence, "json" >>), << Fence >>))
    ELSE IF startswith(response_text, << Fence >>)
    THEN strip(split0(split1(response_text, << Fence >>), << Fence >>))
    ELSE response_text

IsDict(x) == "py" \notin DOMAIN x

\* Whether one of the strings of the JSON value doc holds three backticks.
HasFence(doc) ==
    /\ IsDict(doc)
    /\ \/ /\ "updates" \in DOMAIN doc
          /\ doc["updates"] # None
          /\ "description" \in DOMAIN doc["updates"]
          /\ doc["updates"]["description"] = FenceText
       \/ /\ "events" \in DOMAIN doc
          /\ doc["events"] # None
          /\ \E i \in 1..Len(doc["events"].v) :
                /\ IsDict(doc["events"].v[i])
                /\ "description" \in DOMAIN doc["events"].v[i]
                /\ doc["events"].v[i]["description"] = FenceText

\* json.dumps(doc), as tokens.
dumps(doc) ==
    IF HasFence(doc) THEN << "{..", Fence, "..}" >> ELSE << "{..}" >>

\* json.loads(text), where doc is the value the document tokens of the text
\* stand for: the value when the text is one whole document (white space
\* around it allowed), JSONDecodeError otherwise.
loads(text, doc) ==
    IF strip(text) = dumps(doc)
    THEN [exc |-> "none", value |-> doc]
    ELSE [exc |-> "JSONDecodeError", value |-> None]

-----------------------------------------------------------------------------
(* Calendar Feature: the extractor.                                        *)

\* The handle genai.Client(api_key=...) returns.
TheClient == "client"

\* _get_client that assigns _client also when it raises.
_get_client_set_on_error(cl, key) ==
    IF cl = "None"
    THEN IF key = ""
         THEN [exc |-> "ValueError", value |-> "None", client |-> TheClient,
               constructed |-> 0]
         ELSE [exc |-> "none", value |-> TheClient, client |-> TheClient,
               constructed |-> 1]
    ELSE [exc |-> "none", value |-> cl, client |-> cl, constructed |-> 0]

\* _get_client() of calendar_feature.py: cl is _client, key the API key in
\* the environment ("" when unset).  client: _client afterwards.
_get_client(cl, key) ==
    IF cl = "None"
    THEN IF key = ""
         THEN [exc |-> "ValueError", value |-> "None", client |-> cl,
               constructed |-> 0]
         ELSE [exc |-> "none", value |-> TheClient, client |-> TheClient,
               constructed |-> 1]
    ELSE [exc |-> "none", value |-> cl, client |-> cl, constructed |-> 0]

\* What _parse_calendar_request returns: value is the parsed request or
\* None, caught the exception its except clauses swallowed.
Parsed(v, cl, cs, caught) ==
    [value |-> v, client |-> cl, calls |-> cs, caught |-> caught]

\* A model request that is sent a second time.
GenerateContentTwice(message_text) ==
    << [api |-> "generate_content", model |-> "gemini-2.5-flash",
        message |-> message_text],
       [api |-> "generate_content", model |-> "gemini-2.5-flash",
        message |-> message_text] >>

GenerateContent(message_text) ==
    << [api |-> "generate_content", model |-> "gemini-2.5-flash",
        message |-> message_text] >>

\* Lines 240-243: parsed is what json.loads did; parsed.get('action') raises
\* AttributeError when the value is no dict.
AfterLoads(parsed, cl, message_text) ==
    IF parsed.exc # "none"
    THEN Parsed(None, cl, GenerateContent(message_text), parsed.exc)
    ELSE IF ~IsDict(parsed.value)
    THEN Parsed(None, cl, GenerateContent(message_text), "AttributeError")
    ELSE Parsed(parsed.value, cl, GenerateContent(message_text), "none")

\* _parse_calendar_request from line 138 on, gc being what _get_client did.
ParseWith(gc, message_text, response) ==
    IF gc.exc # "none"
    THEN Parsed(None, gc.client, << >>, gc.exc)
    ELSE IF response.kind = "raise"
    THEN Parsed(None, gc.client, GenerateContent(message_text), "APIError")
    ELSE IF response.kind = "no_text"
    THEN Parsed(None, gc.client, GenerateContent(message_text), "AttributeError")
    ELSE AfterLoads(loads(StripFence(strip(response.text)), response.doc),
                    gc.client, message_text)

\* _parse_calendar_request(message_text, context).  response: what the model
\* call does, [kind, text, doc] with kind "raise" (the call raises), "no_text"
\* (response.text is None) or "text".  Every exception is caught and turned
\* into None (lines 245-253).
_parse_calendar_request(message_text, cl, key, response) ==
    ParseWith(_get_client(cl, key), message_text, response)

-----------------------------------------------------------------------------
(* Calendar Feature: the create path.                                      *)

\* The truth value of optional field f of a draft, whose value is x: a str
\* (description, location, recurrence) is true unless empty, a dict
\* (reminders) unless empty.
Truthy(f, x) == IF f = "reminders" THEN DOMAIN x # {} ELSE x # ""

\* Lines 271-278: parsed_event with the optional field f of event added when
\* it is present and true.
AddOptional(parsed_event, event, f) ==
    IF f \in DOMAIN event /\ Truthy(f, event[f])
    THEN Put(parsed_event, f, event[f]) ELSE parsed_event

\* Lines 264-278, the two timestamps being parsed.
ParsedEvent(event, start, end) ==
    AddOptional(
        AddOptional(
            AddOptional(
                AddOptional([summary |-> Get(event, "summary", "Untitled Event"),
                             start |-> start, end |-> end],
                            event, "description"),
                event, "location"),
            event, "recurrence"),
        event, "reminders")

\* The exception, if any, of datetime.strptime(event[key], ...).
TimestampError(event, key) ==
    IF key \notin DOMAIN event THEN "KeyError" ELSE strptime(event[key]).exc

\* The body of the conversion loop for one entry of events_data (lines
\* 264-280), before its except clause.
ParseEvent(event) ==
    IF ~IsDict(event) THEN [exc |-> "AttributeError", value |-> None]
    ELSE IF TimestampError(event, "start_datetime") # "none"
    THEN [exc |-> TimestampError(event, "start_datetime"), value |-> None]
    ELSE IF TimestampError(event, "end_datetime") # "none"
    THEN [exc |-> TimestampError(event, "end_datetime"), value |-> None]
    ELSE [exc |-> "none",
          value |-> ParsedEvent(event,
                                strptime(event["start_datetime"]).value,
                                strptime(event["end_datetime"]).value)]

\* The exceptions the conversion loop catches per entry (line 281).
SkippedExceptions == {"KeyError", "ValueError"}

\* One turn of the conversion loop: e is what ParseEvent did for the entry.
Converted(conv, e) ==
    IF conv.exc # "none" THEN conv
    ELSE IF e.exc = "none"
    THEN [exc |-> "none", events |-> Append(conv.events, e.value)]
    ELSE IF e.exc \in SkippedExceptions THEN conv
    ELSE [exc |-> e.exc, events |-> conv.events]

\* The conversion loop (lines 261-283) over the first n entries: events
\* collects the converted entries; an exception the loop does not catch
\* ends it.
RECURSIVE ConvertEvents(_, _)
ConvertEvents(events_data, n) ==
    IF n = 0 THEN [exc |-> "none", events |-> << >>]
    ELSE Converted(ConvertEvents(events_data, n - 1), ParseEvent(events_data[n]))

\* One turn of the creation loop (lines 290-296): r is what
\* create_calendar_event did for event_data.
Created(acc, event_data, r) ==
    [token |-> r.token,
     calls |-> acc.calls
               \o << [api |-> "create_calendar_event", event_data |-> event_data] >>
               \o r.calls,
     created |-> IF r.exc = "none" THEN Append(acc.created, r.value)
                 ELSE acc.created]

CreateStep(acc, event_data, i, tokens, creds, env) ==
    Created(acc, event_data,
            create_calendar_event(event_data,
                                  [tokens EXCEPT !["bot"] = acc.token],
                                  creds, env.authOk,
                                  [ok |-> env.insertOk[i], id |-> i]))

\* The creation loop over the first n events.
RECURSIVE CreateEvents(_, _, _, _, _)
CreateEvents(events, n, tokens, creds, env) ==
    IF n = 0
    THEN [token |-> tokens["bot"], calls |-> << >>, created |-> << >>]
    ELSE CreateStep(CreateEvents(events, n - 1, tokens, creds, env),
                    events[n], n, tokens, creds, env)

\* The time line of a created event (lines 305-312).
TimeStr(event) == [from |-> event["start"]["dateTime"],
                   to |-> event["end"]["dateTime"]]

\* event.get('recurrence') is true
Recurring(event) ==
    "recurrence" \in DOMAIN event /\ event["recurrence"] # << >>

Minutes(reminders) == [i \in 1..Len(reminders) |-> reminders[i]["minutes"]]

\* The reminder line of the single-event reply (lines 330-334): the minutes
\* listed, none when the line is left out.
ReminderTimes(event) ==
    IF "reminders" \in DOMAIN event
       /\ ~Get(event["reminders"], "useDefault", FALSE)
    THEN Minutes(Get(event["reminders"], "overrides", << >>))
    ELSE << >>

\* The single-event reply (lines 300-336).
CreatedOneReply(event) ==
    [kind |-> "created_one",
     summary |-> event["summary"],
     time |-> TimeStr(event),
     recurring |-> Recurring(event),
     description |-> Get(event, "description", ""),
     location |-> Get(event, "location", ""),
     reminders |-> ReminderTimes(event)]

\* One item of the multi-event reply (lines 341-361).
EventDetail(event) ==
    [summary |-> event["summary"],
     time |-> TimeStr(event),
     recurring |-> Recurring(event),
     location |-> Get(event, "location", "")]

\* The multi-event reply (lines 338-364).
CreatedManyReply(created_events) ==
    [kind |-> "created_many",
     count |-> Len(created_events),
     details |-> [i \in 1..Len(created_events) |-> EventDetail(created_events[i])]]

\* What _handle_creation and _handle_modification return: the reply, the
\* calls issued and the bot token file's state afterwards.
Handled(reply, cs, t) == [reply |-> reply, calls |-> cs, token |-> t]

\* A reply in the single-event wording whenever an event was created.
CreationReplyOfFirst(done) ==
    Handled(IF Len(done.created) >= 1 THEN CreatedOneReply(done.created[1])
            ELSE [kind |-> "create_failed"],
            done.calls, done.token)

\* Lines 299-366: the reply, done being what the creation loop did.
CreationReply(done) ==
    Handled(IF Len(done.created) = 1 THEN CreatedOneReply(done.created[1])
            ELSE IF Len(done.created) > 1 THEN CreatedManyReply(done.created)
            ELSE [kind |-> "create_failed"],
            done.calls, done.token)

\* _handle_creation from line 285 on, conv being what the conversion loop
\* did.
CreationWith(conv, tokens, creds, env) ==
    IF conv.exc # "none"
    THEN Handled([kind |-> "error_creating", text |-> conv.exc], << >>,
                 tokens["bot"])
    ELSE IF conv.events = << >>
    THEN Handled([kind |-> "parse_failed"], << >>, tokens["bot"])
    ELSE CreationReply(CreateEvents(conv.events, Len(conv.events),
                                    tokens, creds, env))

\* _handle_creation(events_data).  events_data is a List or None; iterating
\* over None raises TypeError, which the outer except clause (line 368)
\* turns into a reply.
_handle_creation(events_data, tokens, creds, env) ==
    IF events_data = None
    THEN Handled([kind |-> "error_creating", text |-> "TypeError"], << >>,
                 tokens["bot"])
    ELSE CreationWith(ConvertEvents(events_data.v, Len(events_data.v)),
                      tokens, creds, env)

-----------------------------------------------------------------------------
(* Calendar Feature: the modify path.                                      *)

\* One turn of the modification loop (lines 402-412): r is what
\* modify_event did for event.
Modified(acc, event, updates, r) ==
    [token |-> r.token,
     calls |-> acc.calls
               \o << [api |-> "modify_event", eventId |-> event["id"],
                      updates |-> updates] >>
               \o r.calls,
     modified_count |-> IF r.exc = "none" THEN acc.modified_count + 1
                        ELSE acc.modified_count,
     modified_events |->
        IF r.exc = "none"
        THEN Append(acc.modified_events,
                    Get(updates, "summary", Get(event, "summary", "Untitled")))
        ELSE acc.modified_events,
     is_recurring |-> acc.is_recurring \/ (r.exc = "none" /\ Recurring(event))]

\* A modification loop that gives up at the first failed modify_event.
ModifyStepUntilFailure(acc, event, updates, i, tokens, creds, env) ==
    IF acc.modified_count < i - 1 \/ "id" \notin DOMAIN event THEN acc
    ELSE Modified(acc, event, updates,
                  modify_event(event["id"], updates,
                               [tokens EXCEPT !["bot"] = acc.token],
                               creds, env.authOk,
                               [getOk |-> env.getOk[i], event |-> event,
                                updateOk |-> env.updateOk[i]]))

ModifyStep(acc, event, updates, i, tokens, creds, env) ==
    IF "id" \notin DOMAIN event THEN acc
    ELSE Modified(acc, event, updates,
                  modify_event(event["id"], updates,
                               [tokens EXCEPT !["bot"] = acc.token],
                               creds, env.authOk,
                               [getOk |-> env.getOk[i], event |-> event,
                                updateOk |-> env.updateOk[i]]))

\* The modification loop (lines 398-412) over the first n matches, start
\* being the state before it.
RECURSIVE ModifyEvents(_, _, _, _, _, _, _)
ModifyEvents(matching_events, updates, n, start, tokens, creds, env) ==
    IF n = 0 THEN start
    ELSE ModifyStep(ModifyEvents(matching_events, updates, n - 1, start,
                                 tokens, creds, env),
                    matching_events[n], updates, n, tokens, creds, env)

\* updates['reminders'].get('overrides', [{}]), then [0].get('minutes', 0)
\* (line 425): IndexError when overrides is an empty list.
Overrides(updates) == Get(updates["reminders"], "overrides", << EmptyDict >>)

ReminderMinutes(updates) ==
    IF Overrides(updates) = << >> THEN [exc |-> "IndexError", minutes |-> 0]
    ELSE [exc |-> "none", minutes |-> Get(Overrides(updates)[1], "minutes", 0)]

\* The lines of the reply that name the fields changed (lines 417-426).
ReplyFields == {"summary", "description", "location", "reminders"}

UpdateLines(updates) ==
    [f \in ReplyFields \cap DOMAIN updates |->
        IF f = "reminders" THEN ReminderMinutes(updates).minutes ELSE updates[f]]

\* Lines 414-439: the reply, done being what the modification loop did.
ModificationReply(done, updates) ==
    IF done.modified_count = 0
    THEN Handled([kind |-> "modify_failed"], done.calls, done.token)
    ELSE IF "reminders" \in DOMAIN updates /\ ReminderMinutes(updates).exc # "none"
    THEN Handled([kind |-> "error_modifying",
                  text |-> ReminderMinutes(updates).exc],
                 done.calls, done.token)
    ELSE IF done.modified_count = 1
    THEN Handled([kind |-> "modified_one",
                  event_name |-> done.modified_events[1],
                  recurring |-> done.is_recurring,
                  updates |-> UpdateLines(updates)],
                 done.calls, done.token)
    ELSE Handled([kind |-> "modified_many",
                  count |-> done.modified_count,
                  recurring |-> done.is_recurring,
                  updates |-> UpdateLines(updates)],
                 done.calls, done.token)

\* _handle_modification without the test of line 394: an empty result goes
\* through the loop like any other.
ModificationWithAnyResult(s, search_query, updates, tokens, creds, env) ==
    IF s.exc # "none"
    THEN Handled([kind |-> "error_modifying", text |-> s.exc],
                 << [api |-> "search_events", q |-> search_query] >> \o s.calls,
                 s.token)
    ELSE ModificationReply(
             ModifyEvents(s.value, updates, Len(s.value),
                 [token |-> s.token,
                  calls |-> << [api |-> "search_events", q |-> search_query] >>
                            \o s.calls,
                  modified_count |-> 0, modified_events |-> << >>,
                  is_recurring |-> FALSE],
                 tokens, creds, env),
             updates)

\* _handle_modification from line 394 on, s being what search_events did.
ModificationWith(s, search_query, updates, tokens, creds, env) ==
    IF s.exc # "none"
    THEN Handled([kind |-> "error_modifying", text |-> s.exc],
                 << [api |-> "search_events", q |-> search_query] >> \o s.calls,
                 s.token)
    ELSE IF s.value = << >>
    THEN Handled([kind |-> "no_match", query |-> search_query],
                 << [api |-> "search_events", q |-> search_query] >> \o s.calls,
                 s.token)
    ELSE ModificationReply(
             ModifyEvents(s.value, updates, Len(s.value),
                 [token |-> s.token,
                  calls |-> << [api |-> "search_events", q |-> search_query] >>
                            \o s.calls,
                  modified_count |-> 0, modified_events |-> << >>,
                  is_recurring |-> FALSE],
                 tokens, creds, env),
             updates)

\* _handle_modification(search_query, updates).  search_query is a str ("" is
\* false), updates a dict or None.
_handle_modification(search_query, updates, tokens, creds, env) ==
    IF search_query = ""
    THEN Handled([kind |-> "query_unclear"], << >>, tokens["bot"])
    ELSE ModificationWith(
             search_events(search_query, tokens, creds, env.authOk,
                           [ok |-> env.listOk, items |-> env.matches]),
             search_query, updates, tokens, creds, env)

-----------------------------------------------------------------------------
(* Calendar Feature: handle.                                               *)

\* What handle's try block did: exc is the exception that leaves it, "none"
\* when it returns reply; parsed is what the extractor returned, path the
\* branch of lines 108-114 taken.
Tried(exc, reply, cs, p, t, path) ==
    [exc |-> exc, reply |-> reply, calls |-> cs, client |-> p.client,
     token |-> t, parsed |-> p.value, caught |-> p.caught, path |-> path]

\* The try block once a path has returned h.
Took(p, h, path) ==
    Tried("none", h.reply, p.calls \o h.calls, p, h.token, path)

\* Lines 101-114, p being what _parse_calendar_request did.
Dispatch(p, tokens, creds, env) ==
    IF p.value = None \/ p.value = EmptyDict
    THEN Tried("none", [kind |-> "not_understood"], p.calls, p,
               tokens["bot"], "none")
    ELSE IF "action" \notin DOMAIN p.value
    THEN Tried("KeyError", [kind |-> "none"], p.calls, p, tokens["bot"], "none")
    ELSE IF p.value["action"] = "modify"
    THEN IF {"search_query", "updates"} \ DOMAIN p.value # {}
         THEN Tried("KeyError", [kind |-> "none"], p.calls, p, tokens["bot"],
                    "modify")
         ELSE Took(p, _handle_modification(p.value["search_query"],
                                           p.value["updates"],
                                           tokens, creds, env),
                   "modify")
    ELSE IF "events" \notin DOMAIN p.value
    THEN Tried("KeyError", [kind |-> "none"], p.calls, p, tokens["bot"],
               "create")
    ELSE Took(p, _handle_creation(p.value["events"], tokens, creds, env),
              "create")

\* The body of handle's try block (lines 98-114).
HandleTry(message_text, cl, key, tokens, creds, response, env) ==
    Dispatch(_parse_calendar_request(message_text, cl, key, response),
             tokens, creds, env)

\* handle without its except clause: the exception leaves handle.
ExceptNothing(t) == t

\* The except clause of handle (lines 116-120): an exception becomes the
\* error reply, which carries its text.
Except(t) ==
    IF t.exc # "none"
    THEN [t EXCEPT !.reply = [kind |-> "error_processing", text |-> t.exc],
                   !.exc = "none"]
    ELSE t

\* handle(message, message_text, context)
handle(message_text, cl, key, tokens, creds, response, env) ==
    Except(HandleTry(message_text, cl, key, tokens, creds, response, env))

-----------------------------------------------------------------------------
(* The inputs of one handle call: the message, what the model answers and  *)
(* what the provider answers.                                              *)

Messages == {"Meeting tomorrow at 3pm", "Rename office hours to tutor hours"}

Popup60 == [useDefault |-> FALSE,
            overrides |-> << [method |-> "popup", minutes |-> 60] >>]
Weekly == "RRULE:FREQ=WEEKLY;BYDAY=MO"

\* Entries of the "events" list of a create request, as the model may write
\* them: two complete drafts, and drafts that lack a field, carry a text
\* that is no timestamp, carry null for a timestamp, or end before they
\* start.
DraftMeeting ==
    [summary |-> "Meeting",
     start_datetime |-> Str("2026-02-18 15:00"),
     end_datetime |-> Str("2026-02-18 16:00")]
DraftLunch ==
    [summary |-> "Lunch with Sarah", description |-> "Discuss plans",
     start_datetime |-> Str("2026-02-18 14:00"),
     end_datetime |-> Str("2026-02-18 15:00"),
     location |-> "Cafe", recurrence |-> Weekly, reminders |-> Popup60]
DraftNoStart ==
    [summary |-> "Standup", end_datetime |-> Str("2026-02-18 15:00")]
DraftBadTime ==
    [summary |-> "Dinner", start_datetime |-> Str("tomorrow 3pm"),
     end_datetime |-> Str("2026-02-18 16:00")]
DraftNullStart ==
    [summary |-> "Call", start_datetime |-> None,
     end_datetime |-> Str("2026-02-18 16:00")]
DraftBackwards ==
    [description |-> "", start_datetime |-> Str("2026-02-18 16:00"),
     end_datetime |-> Str("2026-02-18 15:00")]
DraftFence ==
    [summary |-> "Review", description |-> FenceText,
     start_datetime |-> Str("2026-02-18 15:00"),
     end_datetime |-> Str("2026-02-18 16:00")]

Drafts == {DraftMeeting, DraftLunch, DraftNoStart, DraftBadTime,
           DraftNullStart, DraftBackwards}

\* All lists of at most n elements of S.
SeqUpTo(S, n) == UNION {[1..k -> S] : k \in 0..n}

\* The "updates" of a modify request, as the model may write them.
UpdatesPool ==
    { [summary |-> "Tutor Hours"],
      [location |-> "Zoom"],
      [summary |-> "Tutor Hours", description |-> "Moved"],
      [reminders |-> Popup60],
      [reminders |-> [useDefault |-> FALSE, overrides |-> << >>]],
      [start |-> Str("2026-02-18 15:00"), end |-> Str("2026-02-18 16:00")],
      [recurrence |-> Weekly],
      EmptyDict,
      None }

\* The JSON values the model's text may hold.
CreateDocs ==
    {[action |-> "create", events |-> List(es)] :
        es \in SeqUpTo(Drafts, MaxBatch)}
    \cup {[action |-> "create", events |-> None],
          [action |-> "create"],
          [action |-> "delete", events |-> List(<< DraftMeeting >>)]}
ModifyDocs ==
    {[action |-> "modify", search_query |-> q, updates |-> u] :
        q \in {"office hours", ""}, u \in UpdatesPool}
    \cup {[action |-> "modify", updates |-> [summary |-> "Tutor Hours"]],
          [action |-> "modify", search_query |-> "office hours"]}
FenceDocs ==
    {[action |-> "create", events |-> List(<< DraftFence >>)],
     [action |-> "modify", search_query |-> "office hours",
      updates |-> [description |-> FenceText]]}
OtherDocs ==
    {List(<< >>), EmptyDict,
     [events |-> List(<< DraftMeeting >>)],
     [search_query |-> "office hours", updates |-> [summary |-> "Tutor Hours"]]}

\* The ways the model wraps a document in its text.
Styles == {"bare", "padded", "json_fence", "plain_fence", "json_fence_prose"}

Render(style, doc) ==
    CASE style = "bare" -> dumps(doc)
      [] style = "padded" -> << Space >> \o dumps(doc) \o << Space >>
      [] style = "json_fence" ->
            << Fence, "json", Space >> \o dumps(doc) \o << Space, Fence >>
      [] style = "plain_fence" ->
            << Fence, Space >> \o dumps(doc) \o << Space, Fence >>
      [] style = "json_fence_prose" ->
            << Fence, "json", Space >> \o dumps(doc)
               \o << Space, Fence, Space, "prose" >>

\* Texts that hold no whole JSON document.
MalformedTexts ==
    { << "prose" >>, << >>, << "{.." >>, << "prose", "{..}" >>,
      << Fence, "json", Space, "prose", Space, Fence >>,
      << Fence, Space, "{..", Space, Fence >>,
      << Fence, "prose", Space, "{..}", Space, Fence >> }

\* The documents given in every style; the others are given bare.
StyledDocs ==
    FenceDocs \cup OtherDocs
    \cup {[action |-> "create", events |-> List(<< DraftMeeting >>)],
          [action |-> "modify", search_query |-> "office hours",
           updates |-> [summary |-> "Tutor Hours"]]}

Responses ==
    {[kind |-> "raise", text |-> << >>, doc |-> None],
     [kind |-> "no_text", text |-> << >>, doc |-> None]}
    \cup {[kind |-> "text", text |-> t, doc |-> [action |-> "create"]] :
             t \in MalformedTexts}
    \cup {[kind |-> "text", text |-> Render("bare", d), doc |-> d] :
             d \in CreateDocs \cup ModifyDocs}
    \cup {[kind |-> "text", text |-> Render(st, d), doc |-> d] :
             st \in Styles, d \in StyledDocs}

\* Events of the provider's calendar a search may return.
OfficeHours1 ==
    [id |-> "e1", summary |-> "Office Hours", location |-> "Room 1",
     start |-> [dateTime |-> "2026-02-18T14:00:00", timeZone |-> TimeZone],
     end |-> [dateTime |-> "2026-02-18T15:00:00", timeZone |-> TimeZone],
     reminders |-> [useDefault |-> TRUE]]
OfficeHours2 ==
    [id |-> "e2", summary |-> "Office Hours", description |-> "CSE 127",
     start |-> [dateTime |-> "2026-02-18T15:00:00", timeZone |-> TimeZone],
     end |-> [dateTime |-> "2026-02-18T16:00:00", timeZone |-> TimeZone],
     recurrence |-> << Weekly >>,
     reminders |-> Popup60]
OfficeHours3 ==
    [id |-> "e3", summary |-> "Makeup Office Hours",
     start |-> [dateTime |-> "2026-02-18T16:00:00", timeZone |-> TimeZone],
     end |-> [dateTime |-> "2026-02-18T16:00:00", timeZone |-> TimeZone],
     reminders |-> [useDefault |-> TRUE]]
StoredEvents == {OfficeHours1, OfficeHours2, OfficeHours3}

\* Lists of distinct stored events, at most MaxMatches long.
MatchLists ==
    {m \in SeqUpTo(StoredEvents, MaxMatches) :
        \A i, j \in 1..Len(m) : i # j => m[i] # m[j]}

\* What the provider does with the get and the update of one modify_event.
ModifyOutcomes == {"ok", "get_fails", "update_fails"}

\* The number of drafts of events_data the conversion loop keeps.
Kept(doc) ==
    IF IsDict(doc) /\ "events" \in DOMAIN doc /\ doc["events"] # None
    THEN Len(ConvertEvents(doc["events"].v, Len(doc["events"].v)).events)
    ELSE 0

IsModify(doc) ==
    /\ IsDict(doc)
    /\ {"action", "search_query", "updates"} \subseteq DOMAIN doc
    /\ doc["action"] = "modify"
    /\ doc["search_query"] # ""

\* The provider's answers that one handle call given response can consult
\* (the others are fixed: they are never read).
InsertAnswers(n) ==
    {f \in [1..MaxBatch -> BOOLEAN] : \A i \in 1..MaxBatch : i > n => f[i]}

OutcomeAnswers(n) ==
    {f \in [1..MaxMatches -> ModifyOutcomes] :
        \A i \in 1..MaxMatches : i > n => f[i] = "ok"}

SearchAnswers(mod) ==
    IF mod
    THEN {[ok |-> FALSE, m |-> << >>, o |-> f] : f \in OutcomeAnswers(0)}
         \cup UNION {{[ok |-> TRUE, m |-> m, o |-> f] : f \in OutcomeAnswers(Len(m))} :
                        m \in MatchLists}
    ELSE {[ok |-> TRUE, m |-> << >>, o |-> f] : f \in OutcomeAnswers(0)}

Envs(response, token) ==
    LET doc == response.doc
        n == IF response.kind = "text" THEN Kept(doc) ELSE 0
        mod == response.kind = "text" /\ IsModify(doc)
        auths == IF token = "valid" \/ (n = 0 /\ ~mod) THEN {TRUE} ELSE BOOLEAN
    IN  {[authOk |-> a, insertOk |-> ins, listOk |-> l.ok, matches |-> l.m,
          outcomes |-> l.o] :
            a \in auths, ins \in InsertAnswers(n), l \in SearchAnswers(mod)}

\* env as the handler's operators read it.
Provider(e) ==
    [authOk |-> e.authOk, insertOk |-> e.insertOk, listOk |-> e.listOk,
     matches |-> e.matches,
     getOk |-> [i \in 1..MaxMatches |-> e.outcomes[i] # "get_fails"],
     updateOk |-> [i \in 1..MaxMatches |-> e.outcomes[i] = "ok"]]

-----------------------------------------------------------------------------
(* The specification of the Calendar Feature: handle calls, one at a time, *)
(* in a process whose environment may gain the API key and whose bot token *)
(* may expire.                                                             *)

NoRequest == [message |-> "", response |-> [kind |-> "none"], env |-> None]
NoOutcome == [exc |-> "none", reply |-> [kind |-> "none"], calls |-> << >>,
              client |-> "None", token |-> "none", parsed |-> None,
              caught |-> "none", path |-> "none"]
NoGop == [op |-> "none"]
NoGout == [exc |-> "none", value |-> None, calls |-> << >>, token |-> "none"]
NoRin == [message |-> << >>, answer |-> [kind |-> "none"], peers |-> << >>]
NoRout == [exc |-> "none", feature |-> << >>, calls |-> << >>]

EmptyStore == [events |-> EmptyDict, writes |-> 0]

\* The modules that keep a lazily made client in a global _client.
Modules == {"calendar_feature", "conversation_feature"}
\* The host's threads that serve inbound messages.
Threads == {"t1", "t2"}
\* A thread outside _get_client.
IdleThread == [pc |-> "idle", module |-> "none", new |-> "None",
               ret |-> "None", exc |-> "none"]

\* No HTTP request, no main and no conversation in progress.
NoWreq == [route |-> "none"]
NoWresp == [status |-> 0]
NoMout == [exc |-> "none", token |-> "None", log |-> << >>, calls |-> << >>]
NoCin == [message_text |-> << >>, response |-> [kind |-> "none"]]
NoCout == [exc |-> "none", reply |-> [kind |-> "none"], calls |-> << >>,
           client |-> "None"]
NoEarlier == [phase |-> "none"]
HostIdle ==
    /\ wpc = "idle" /\ wreq = NoWreq /\ wresp = NoWresp
    /\ discordToken = "None" /\ mpc = "stopped" /\ mout = NoMout
    /\ cpc = "idle" /\ cin = NoCin /\ cout = NoCout
    /\ earlier = NoEarlier

ClientIdle ==
    /\ conv_client = "None"
    /\ threads = [t \in Threads |-> IdleThread]
    /\ constructed = [m \in Modules |-> 0]
GatewayIdle ==
    /\ calendar = EmptyStore /\ gpc = "idle" /\ gop = NoGop /\ gout = NoGout
RouteIdle ==
    /\ rpc = "idle" /\ rin = NoRin /\ rout = NoRout

Init ==
    /\ client = "None"
    /\ apiKey \in {"", "key"}
    /\ tokenFile \in {t \in [Pairs -> TokenStates] : t["user"] = "valid"}
    /\ credFile \in {c \in [Pairs -> BOOLEAN] : c["user"]}
    /\ pc = "idle" /\ request = NoRequest /\ outcome = NoOutcome
    /\ GatewayIdle
    /\ RouteIdle
    /\ ClientIdle
    /\ HostIdle

\* One CalendarFeature.handle call, from the message to the reply.
Handle ==
    /\ pc = "idle"
    /\ \E m \in Messages, r \in Responses :
         \E e \in Envs(r, tokenFile["bot"]) :
            /\ request' = [message |-> m, response |-> r, env |-> e]
            /\ outcome' = handle(m, client, apiKey, tokenFile, credFile, r,
                                 Provider(e))
    /\ client' = outcome'.client
    /\ constructed' =
          [constructed EXCEPT !["calendar_feature"] =
              @ + _get_client(client, apiKey).constructed]
    /\ tokenFile' = [tokenFile EXCEPT !["bot"] = outcome'.token]
    /\ pc' = "done"
    /\ UNCHANGED <<apiKey, credFile, gatewayVars, routeVars, conv_client,
                   threads, hostVars>>

\* The transport posts the reply; the call's frame is gone.
Reply ==
    /\ pc = "done"
    /\ pc' = "idle" /\ request' = NoRequest /\ outcome' = NoOutcome
    /\ UNCHANGED <<processVars, gatewayVars, routeVars, clientVars, hostVars>>

\* The environment gains the API key (load_dotenv after a fixed .env).
SetApiKey ==
    /\ pc = "idle" /\ apiKey = ""
    /\ apiKey' = "key"
    /\ UNCHANGED <<client, tokenFile, credFile, handleVars, gatewayVars, routeVars, clientVars, hostVars>>

\* The bot's access token expires.
TokenExpires ==
    /\ pc = "idle" /\ tokenFile["bot"] = "valid"
    /\ tokenFile' = [tokenFile EXCEPT !["bot"] = "expired_refreshable"]
    /\ UNCHANGED <<client, apiKey, credFile, handleVars, gatewayVars, routeVars, clientVars, hostVars>>

Next == Handle \/ Reply \/ SetApiKey \/ TokenExpires

Spec == Init /\ [][Next]_vars

-----------------------------------------------------------------------------
(* Properties of the Calendar Feature, checked under Spec.                 *)

\* The calls of cs whose api is in apis, in order.
CallsOf(cs, apis) == SelectSeq(cs, LAMBDA c : c.api \in apis)

\* The provider mutations a handler may issue, at either level.
MutationApis == {"create_calendar_event", "insert", "modify_event", "update"}
CalendarApis ==
    MutationApis \cup {"search_events", "list", "get", "build", "refresh",
                       "flow", "dump"}

\* The model was asked and answered with a text.
Answered ==
    /\ pc = "done"
    /\ request.response.kind = "text"
    /\ CallsOf(outcome.calls, {"generate_content"}) # << >>

\* What json.loads makes of the text of the request, fence stripped.
Loaded == loads(StripFence(strip(request.response.text)), request.response.doc)

\* C1: CalendarFeature.handle returns a text reply for every message,
\* whatever the model and the calendar calls return or raise; no exception
\* leaves handle.
C1_HandleAlwaysReplies ==
    pc = "done" => /\ outcome.exc = "none"
                   /\ outcome.reply.kind # "none"

\* C1 witness: a handle call whose try block raised, answered with the error
\* reply.
C1_Witness ==
    /\ pc = "done"
    /\ outcome.reply.kind = "error_processing"
    /\ outcome.exc = "none"

\* The timestamps the format '%Y-%m-%d %H:%M' accepts.
Timestamps == {"2026-02-18 14:00", "2026-02-18 15:00", "2026-02-18 16:00"}

\* An entry of a create batch that is not malformed: both timestamps are
\* there and are texts in the format.
WellFormedDraft(e) ==
    /\ IsDict(e)
    /\ {"start_datetime", "end_datetime"} \subseteq DOMAIN e
    /\ \A k \in {"start_datetime", "end_datetime"} :
          e[k].py = "str" /\ e[k].v \in Timestamps

\* The successful inserts among cs.
Successes(cs) == Len(SelectSeq(cs, LAMBDA c : c.api = "insert" /\ c.ok))

\* C2: in the create path a malformed entry of a batch is dropped alone:
\* create_calendar_event is called once for every other entry, in order, and
\* the reply counts the entries created.
C2_MalformedEntryDroppedAlone ==
    (/\ Answered
     /\ outcome.path = "create"
     /\ "events" \in DOMAIN outcome.parsed
     /\ outcome.parsed["events"] # None)
    => /\ Len(CallsOf(outcome.calls, {"create_calendar_event"}))
            = Len(SelectSeq(outcome.parsed["events"].v, WellFormedDraft))
       /\ Successes(outcome.calls) = 1 => outcome.reply.kind = "created_one"
       /\ Successes(outcome.calls) > 1 =>
            /\ outcome.reply.kind = "created_many"
            /\ outcome.reply.count = Successes(outcome.calls)

\* search_events returned an empty list during the call.
SearchFoundNone ==
    /\ pc = "done"
    /\ outcome.path = "modify"
    /\ \E i \in 1..Len(outcome.calls) :
          outcome.calls[i].api = "list" /\ outcome.calls[i].ok
    /\ request.env.matches = << >>

\* C4: in the modify path, when search_events returns no events, no update
\* and no create call is issued and the reply is the "couldn't find any
\* events matching '<query>'" message.
C4_NoMatchNoUpdate ==
    SearchFoundNone
    => /\ CallsOf(outcome.calls, MutationApis) = << >>
       /\ outcome.reply = [kind |-> "no_match",
                           query |-> outcome.parsed["search_query"]]

\* C4 witness: a modify request whose search ran and found nothing.
C4_Witness ==
    /\ SearchFoundNone
    /\ outcome.reply.kind = "no_match"
    /\ outcome.parsed["updates"] = [summary |-> "Tutor Hours"]

\* search_events returned at least one event during the call.
SearchFoundSome ==
    /\ pc = "done"
    /\ outcome.path = "modify"
    /\ \E i \in 1..Len(outcome.calls) :
          outcome.calls[i].api = "list" /\ outcome.calls[i].ok
    /\ request.env.matches # << >>

\* The place of event id in the search result.
MatchIndex(id) ==
    CHOOSE i \in 1..Len(request.env.matches) : request.env.matches[i]["id"] = id

\* C5: in the modify path with N >= 1 matches, exactly one modify_event call
\* is issued per match, in search-result order and with the same updates; a
\* failed update does not stop the later ones, and no event is written a
\* second time (nothing is rolled back).
C5_OneModifyPerMatch ==
    SearchFoundSome
    => /\ CallsOf(outcome.calls, {"modify_event"})
            = [i \in 1..Len(request.env.matches) |->
                  [api |-> "modify_event",
                   eventId |-> request.env.matches[i]["id"],
                   updates |-> outcome.parsed["updates"]]]
       /\ \A i, j \in 1..Len(CallsOf(outcome.calls, {"update"})) :
             i < j => MatchIndex(CallsOf(outcome.calls, {"update"})[i].eventId)
                        < MatchIndex(CallsOf(outcome.calls, {"update"})[j].eventId)
       /\ CallsOf(outcome.calls, {"create_calendar_event", "insert"}) = << >>

\* C5 witness: two matches, the update of the first fails and the second is
\* updated all the same.
C5_Witness ==
    /\ SearchFoundSome
    /\ Len(request.env.matches) = 2
    /\ request.env.outcomes[1] = "update_fails"
    /\ \E i \in 1..Len(outcome.calls) :
          /\ outcome.calls[i].api = "update"
          /\ outcome.calls[i].ok
          /\ outcome.calls[i].eventId = request.env.matches[2]["id"]

\* The extractor had nothing to return: no client, a failed model call, a
\* text that is no JSON, or a JSON value without the action discriminator.
NothingExtracted ==
    /\ pc = "done"
    /\ \/ CallsOf(outcome.calls, {"generate_content"}) = << >>
       \/ request.response.kind \in {"raise", "no_text"}
       \/ Loaded.exc # "none"
       \/ ~IsDict(Loaded.value)
       \/ "action" \notin DOMAIN Loaded.value

\* C6: when the model call fails, its output is no JSON, or the parsed
\* output lacks action, the extractor yields null and handle answers with the
\* clarification message, free of exception text, and issues no calendar
\* call.
C6_NoActionMeansNotUnderstood ==
    NothingExtracted
    => /\ outcome.parsed = None
       /\ outcome.reply = [kind |-> "not_understood"]
       /\ CallsOf(outcome.calls, CalendarApis) = << >>

\* A create or modify request with its fields.
WellFormedRequest(doc) ==
    /\ IsDict(doc)
    /\ "action" \in DOMAIN doc
    /\ \/ /\ doc["action"] = "create"
          /\ "events" \in DOMAIN doc
          /\ doc["events"] # None
       \/ /\ doc["action"] = "modify"
          /\ {"search_query", "updates"} \subseteq DOMAIN doc
          /\ doc["updates"] # None

\* C7: for every well-formed create or modify request JSON the extractor
\* returns that JSON, be the text the bare JSON, the JSON in a json fence or
\* the JSON in a plain fence; for malformed JSON it returns null.
C7_FenceStrippingIsIdentity ==
    Answered
    => /\ (/\ WellFormedRequest(request.response.doc)
           /\ \E st \in {"bare", "json_fence", "plain_fence"} :
                 request.response.text = Render(st, request.response.doc))
          => outcome.parsed = request.response.doc
       /\ request.response.text \in MalformedTexts => outcome.parsed = None

\* C11: no create_calendar_event call is issued for a draft whose parsed
\* start is not strictly before its parsed end.
C11_CreatedDraftsStartBeforeEnd ==
    \A i \in 1..Len(outcome.calls) :
        outcome.calls[i].api = "create_calendar_event"
        => outcome.calls[i].event_data["start"].v
             < outcome.calls[i].event_data["end"].v

\* The modify path was taken with an empty updates map.
EmptyUpdates ==
    /\ pc = "done"
    /\ outcome.path = "modify"
    /\ {"search_query", "updates"} \subseteq DOMAIN outcome.parsed
    /\ outcome.parsed["updates"] = EmptyDict

\* C12: a modify request whose updates map is empty is rejected: no update
\* call is issued for it and the reply reports no event as modified.
C12_EmptyUpdatesRejected ==
    EmptyUpdates
    => /\ CallsOf(outcome.calls, {"modify_event", "update"}) = << >>
       /\ outcome.reply.kind \notin {"modified_one", "modified_many"}

\* The value the event written back has to hold in field f for the patch
\* value v: the text for the plain fields, the rule in a list for
\* recurrence, the time in the provider's form for start and end.
Carries(f, v, written) ==
    IF f \in {"start", "end"}
    THEN /\ strptime(v).exc = "none"
         /\ written = TimeField(strptime(v).value)
    ELSE IF f = "recurrence" THEN written = << v >>
    ELSE written = v

\* The places of the search result whose event the provider lets the
\* handler read and write during this call.
Writable ==
    {i \in 1..Len(request.env.matches) :
        /\ request.env.outcomes[i] = "ok"
        /\ \E k \in 1..Len(outcome.calls) :
              /\ outcome.calls[k].api = "get"
              /\ outcome.calls[k].ok
              /\ outcome.calls[k].eventId = request.env.matches[i]["id"]}

\* C13: a patch that names a new start, end or recurrence is applied like
\* any other patch field: for every patch field the extracted updates
\* contain, the event written back carries the patch's value.
C13_EveryPatchFieldApplied ==
    (/\ SearchFoundSome
     /\ outcome.parsed["updates"] # None)
    => \A i \in Writable :
          \E k \in 1..Len(outcome.calls) :
             /\ outcome.calls[k].api = "update"
             /\ outcome.calls[k].eventId = request.env.matches[i]["id"]
             /\ \A f \in PatchFields \cap DOMAIN outcome.parsed["updates"] :
                   /\ f \in DOMAIN outcome.calls[k].body
                   /\ Carries(f, outcome.parsed["updates"][f],
                              outcome.calls[k].body[f])

\* The bodies of the successful inserts among cs, in order.
InsertedBodies(cs) ==
    [i \in 1..Successes(cs) |->
        SelectSeq(cs, LAMBDA c : c.api = "insert" /\ c.ok)[i].body]

\* The replies of the create path that report no event created.
CreateFailureReplies ==
    {"parse_failed", "create_failed", "error_creating", "error_processing"}

\* C14: in the create path the reply is a failure or clarification message
\* exactly when no create call succeeded; with one success it is the
\* single-event summary of that event; with more it enumerates every
\* created event, with a count equal to the number of successes.
C14_CreateReplyCountsSuccesses ==
    (pc = "done" /\ outcome.path = "create")
    => /\ Successes(outcome.calls) = 0
            <=> outcome.reply.kind \in CreateFailureReplies
       /\ Successes(outcome.calls) = 1
            => /\ outcome.reply.kind = "created_one"
               /\ outcome.reply.summary
                     = InsertedBodies(outcome.calls)[1]["summary"]
       /\ Successes(outcome.calls) > 1
            => /\ outcome.reply.kind = "created_many"
               /\ outcome.reply.count = Successes(outcome.calls)
               /\ Len(outcome.reply.details) = Successes(outcome.calls)
               /\ \A i \in 1..Successes(outcome.calls) :
                     outcome.reply.details[i].summary
                        = InsertedBodies(outcome.calls)[i]["summary"]

\* C14 witness: a batch of three of which the second insert failed, answered
\* with the enumeration of the two events created.
C14_Witness ==
    /\ pc = "done"
    /\ outcome.path = "create"
    /\ Len(CallsOf(outcome.calls, {"insert"})) = 3
    /\ ~CallsOf(outcome.calls, {"insert"})[2].ok
    /\ outcome.reply.kind = "created_many"
    /\ outcome.reply.count = 2

\* The update calls among cs that succeeded.
UpdateSuccesses(cs) == Len(SelectSeq(cs, LAMBDA c : c.api = "update" /\ c.ok))

\* C15: in the modify path, whenever an update call succeeded the reply is a
\* success summary whose count is the number of update calls that succeeded
\* and which names the fields changed; when there were matches and every
\* update failed, the reply says the events could not be modified.
C15_ModifyReplyCountsSuccesses ==
    SearchFoundSome
    => /\ UpdateSuccesses(outcome.calls) = 0
            => outcome.reply.kind = "modify_failed"
       /\ UpdateSuccesses(outcome.calls) = 1
            => outcome.reply.kind = "modified_one"
       /\ UpdateSuccesses(outcome.calls) > 1
            => /\ outcome.reply.kind = "modified_many"
               /\ outcome.reply.count = UpdateSuccesses(outcome.calls)
       /\ UpdateSuccesses(outcome.calls) > 0
            => DOMAIN outcome.reply.updates
                  = PatchFields \cap DOMAIN outcome.parsed["updates"]

\* C17: the write handle is initialised at most once: once a Gateway
\* operation of a request has obtained it, the later operations reuse it
\* and build no new service.
C17_WriteHandleBuiltOnce ==
    Len(SelectSeq(outcome.calls,
                  LAMBDA c : c.api = "build" /\ c.via = "bot")) <= 1

\* The calls of the two paths, at the feature's and the provider's level.
CreateApis == {"create_calendar_event", "insert"}
ModifyApis == {"search_events", "list", "modify_event", "get", "update"}

\* The parsed request has action 'modify'.
ModifyRequest ==
    /\ IsDict(outcome.parsed)
    /\ "action" \in DOMAIN outcome.parsed
    /\ outcome.parsed["action"] = "modify"

\* The model request comes first, the calls of one path alone follow, and
\* on the modify path the search precedes the updates.
OrderedAndExclusive ==
    /\ \A i \in 1..Len(outcome.calls) :
          outcome.calls[i].api \in CalendarApis
             => /\ i > 1
                /\ outcome.calls[1].api = "generate_content"
    /\ IF ModifyRequest
       THEN /\ CallsOf(outcome.calls, CreateApis) = << >>
            /\ \A i \in 1..Len(outcome.calls) :
                  outcome.calls[i].api \in {"modify_event", "get", "update"}
                     => \E j \in 1..(i - 1) :
                           outcome.calls[j].api = "search_events"
       ELSE CallsOf(outcome.calls, ModifyApis) = << >>

-----------------------------------------------------------------------------
(* The specification of the Calendar Gateway: its operations, one at a     *)
(* time, against the provider's store.                                     *)

\* Most provider writes in one behaviour.
MaxWrites == 1

\* Ids the provider gives to created events.
NewIds == {"n1"}
\* Ids a caller may pass to modify_event: those of the stored events and one
\* of no event.
EventIds == {"e1", "e2", "n1", "gone"}

\* The stores a behaviour starts from.
InitialStores ==
    {[events |-> [i \in {"e1", "e2"} |->
                     IF i = "e1" THEN OfficeHours1 ELSE OfficeHours2],
      writes |-> 0],
     [events |-> [i \in {"e1"} |-> OfficeHours1], writes |-> 0]}

\* event_data as _handle_creation passes it, and two a caller may get wrong.
EventData ==
    {ParseEvent(DraftMeeting).value, ParseEvent(DraftLunch).value,
     [summary |-> "No end", start |-> DateTime(840)],
     [summary |-> "Text start", start |-> Str("2026-02-18 15:00"),
      end |-> DateTime(960)]}

\* The value an update carries for each patch field.
PatchSample ==
    [summary |-> "Tutor Hours", description |-> "Moved", location |-> "Zoom",
     start |-> DateTime(900), end |-> DateTime(960), recurrence |-> Weekly,
     reminders |-> Popup60]

\* updates: every subset of the patch fields, and what a caller may get
\* wrong.
GatewayUpdates ==
    {[f \in F |-> PatchSample[f]] : F \in SUBSET PatchFields}
    \cup {[start |-> Str("2026-02-18 15:00")], None}

\* The lists a provider search may answer with: stored events, each once.
Listings(store) ==
    {[i \in 1..Len(ids) |-> store.events[ids[i]]] :
        ids \in {m \in SeqUpTo(DOMAIN store.events, MaxMatches) :
                    \A i, j \in 1..Len(m) : i # j => m[i] # m[j]}}

InitGateway ==
    /\ client = "None" /\ apiKey = ""
    /\ tokenFile \in [Pairs -> TokenStates]
    /\ credFile \in {c \in [Pairs -> BOOLEAN] : c["user"]}
    /\ pc = "idle" /\ request = NoRequest /\ outcome = NoOutcome
    /\ calendar \in InitialStores
    /\ gpc = "idle" /\ gop = NoGop /\ gout = NoGout
    /\ RouteIdle
    /\ ClientIdle
    /\ HostIdle

\* The store after an operation that writes event under id when ok.
Stored(store, ok, id, event) ==
    IF ok
    THEN [events |-> Put(store.events, id, event), writes |-> store.writes + 1]
    ELSE store

\* One create_calendar_event call.
CreateCalendarEvent ==
    /\ gpc = "idle" /\ calendar.writes < MaxWrites
    /\ \E event_data \in EventData, authOk, ok \in BOOLEAN,
          id \in NewIds \ DOMAIN calendar.events :
         /\ gop' = [op |-> "create_calendar_event", event_data |-> event_data]
         /\ gout' = create_calendar_event(event_data, tokenFile, credFile,
                                          authOk, [ok |-> ok, id |-> id])
         /\ calendar' = Stored(calendar, gout'.exc = "none", id, gout'.value)
    /\ tokenFile' = [tokenFile EXCEPT !["bot"] = gout'.token]
    /\ gpc' = "done"
    /\ UNCHANGED <<client, apiKey, credFile, handleVars, routeVars, clientVars, hostVars>>

\* One search_events call.
SearchEvents ==
    /\ gpc = "idle"
    /\ \E query \in {"office hours"}, authOk, ok \in BOOLEAN,
          items \in Listings(calendar) :
         /\ gop' = [op |-> "search_events", query |-> query]
         /\ gout' = search_events(query, tokenFile, credFile, authOk,
                                  [ok |-> ok, items |-> items])
    /\ tokenFile' = [tokenFile EXCEPT !["bot"] = gout'.token]
    /\ gpc' = "done"
    /\ UNCHANGED <<client, apiKey, credFile, calendar, handleVars, routeVars, clientVars, hostVars>>

\* One modify_event call: the get fails for an id of no event.
ModifyEvent ==
    /\ gpc = "idle" /\ calendar.writes < MaxWrites
    /\ \E event_id \in EventIds, updates \in GatewayUpdates,
          authOk, ok \in BOOLEAN :
         /\ gop' = [op |-> "modify_event", event_id |-> event_id,
                    updates |-> updates]
         /\ gout' = modify_event(event_id, updates, tokenFile, credFile, authOk,
                       [getOk |-> event_id \in DOMAIN calendar.events,
                        event |-> Get(calendar.events, event_id, None),
                        updateOk |-> ok])
         /\ calendar' = Stored(calendar, gout'.exc = "none", event_id,
                               gout'.value)
    /\ tokenFile' = [tokenFile EXCEPT !["bot"] = gout'.token]
    /\ gpc' = "done"
    /\ UNCHANGED <<client, apiKey, credFile, handleVars, routeVars, clientVars, hostVars>>

\* One list_upcoming_events call.
ListUpcomingEvents ==
    /\ gpc = "idle"
    /\ \E authOk, ok \in BOOLEAN, items \in Listings(calendar) :
         /\ gop' = [op |-> "list_upcoming_events"]
         /\ gout' = list_upcoming_events(tokenFile, credFile, authOk,
                                         [ok |-> ok, items |-> items])
    /\ tokenFile' = [tokenFile EXCEPT !["bot"] = gout'.token]
    /\ gpc' = "done"
    /\ UNCHANGED <<client, apiKey, credFile, calendar, handleVars, routeVars, clientVars, hostVars>>

\* One get_read_service call: the handle of the user pair is built.
GetReadService ==
    /\ gpc = "idle"
    /\ \E authOk \in BOOLEAN :
         /\ gop' = [op |-> "get_read_service"]
         /\ gout' = get_read_service(tokenFile, credFile, authOk)
    /\ tokenFile' = [tokenFile EXCEPT !["user"] = gout'.token]
    /\ gpc' = "done"
    /\ UNCHANGED <<client, apiKey, credFile, calendar, handleVars, routeVars, clientVars, hostVars>>

\* The operation has returned to its caller.
GatewayReturn ==
    /\ gpc = "done"
    /\ gpc' = "idle" /\ gop' = NoGop /\ gout' = NoGout
    /\ UNCHANGED <<processVars, calendar, handleVars, routeVars, clientVars, hostVars>>

NextGateway ==
    \/ CreateCalendarEvent
    \/ SearchEvents
    \/ ModifyEvent
    \/ ListUpcomingEvents
    \/ GetReadService
    \/ GatewayReturn

SpecGateway == InitGateway /\ [][NextGateway]_vars

-----------------------------------------------------------------------------
(* Properties of the Calendar Gateway, checked under SpecGateway.          *)

\* The get and the update of the modify_event call that has just returned.
GetsOf(cs) == SelectSeq(cs, LAMBDA c : c.api = "get" /\ c.ok)
UpdatesOf(cs) == SelectSeq(cs, LAMBDA c : c.api = "update")

\* modify_event has read an event and issued its update.
WroteBack ==
    /\ gpc = "done"
    /\ gop.op = "modify_event"
    /\ UpdatesOf(gout.calls) # << >>

\* C3: modify_event writes back an event equal to the one it fetched in
\* every field not named in updates: such a field has in the update request
\* body the value it has in the event read, and is absent from the body when
\* absent from the event.
C3_UnnamedFieldsUntouched ==
    WroteBack
    => /\ Len(GetsOf(gout.calls)) = 1
       /\ Len(UpdatesOf(gout.calls)) = 1
       /\ \A f \in (DOMAIN GetsOf(gout.calls)[1].event
                    \cup DOMAIN UpdatesOf(gout.calls)[1].body)
                   \ DOMAIN gop.updates :
             /\ f \in DOMAIN GetsOf(gout.calls)[1].event
             /\ f \in DOMAIN UpdatesOf(gout.calls)[1].body
             /\ UpdatesOf(gout.calls)[1].body[f] = GetsOf(gout.calls)[1].event[f]

\* C3 witness: the event with summary "Office Hours" and location "Room 1"
\* patched with a summary alone, and written back with location "Room 1".
C3_Witness ==
    /\ WroteBack
    /\ gop.updates = [summary |-> "Tutor Hours"]
    /\ GetsOf(gout.calls)[1].event = OfficeHours1
    /\ UpdatesOf(gout.calls)[1].body["summary"] = "Tutor Hours"
    /\ UpdatesOf(gout.calls)[1].body["location"] = "Room 1"

\* C8: every insert and every update is issued through the handle
\* get_write_service built from the bot pair; none through the handle of
\* the user (read-only) pair.
C8_MutationsThroughBotOnly ==
    \A i \in 1..Len(gout.calls) :
        gout.calls[i].api \in {"insert", "update"}
        => /\ gout.calls[i].via = "bot"
           /\ \E j \in 1..(i - 1) :
                 gout.calls[j] = [api |-> "build", via |-> "bot"]

\* C8 witness: an insert issued while the user pair's token is valid too.
C8_Witness ==
    /\ gpc = "done"
    /\ gop.op = "create_calendar_event"
    /\ tokenFile["user"] = "valid"
    /\ \E i \in 1..Len(gout.calls) :
          /\ gout.calls[i].api = "insert"
          /\ gout.calls[i].ok
          /\ gout.calls[i].via = "bot"

\* The provider calls among cs, in order.
ProviderCalls(cs) == CallsOf(cs, {"insert", "list", "get", "update"})

\* The names of the calls cs.
Apis(cs) == [i \in 1..Len(cs) |-> cs[i].api]

\* The sequences of provider calls an operation may issue.
AllowedCalls(op) ==
    IF op = "create_calendar_event" THEN {<< >>, << "insert" >>}
    ELSE IF op \in {"search_events", "list_upcoming_events"}
    THEN {<< >>, << "list" >>}
    ELSE IF op = "modify_event"
    THEN {<< >>, << "get" >>, << "get", "update" >>}
    ELSE {<< >>}

\* C18: each Gateway operation issues each of its provider calls at most
\* once (create: one insert; search: one list; modify: one get, then one
\* update); a provider call that fails is the operation's last call and its
\* failure reaches the caller; in modify_event a failed get means no update.
C18_NoRetryFailurePropagates ==
    gpc = "done"
    => /\ Apis(ProviderCalls(gout.calls)) \in AllowedCalls(gop.op)
       /\ \A i \in 1..Len(ProviderCalls(gout.calls)) :
             ~ProviderCalls(gout.calls)[i].ok
             => /\ i = Len(ProviderCalls(gout.calls))
                /\ gout.exc = "HttpError"
       /\ gout.exc = "none"
             => \A i \in 1..Len(ProviderCalls(gout.calls)) :
                   ProviderCalls(gout.calls)[i].ok

\* C18 witness: modify_event for the id of no event: the get fails, no
\* update follows and the caller gets the failure.
C18_Witness ==
    /\ gpc = "done"
    /\ gop.op = "modify_event"
    /\ gop.event_id = "gone"
    /\ Apis(ProviderCalls(gout.calls)) = << "get" >>
    /\ gout.exc = "HttpError"

\* The credential pair an operation takes its handle from.
PairOf(op) == IF op = "get_read_service" THEN "user" ELSE "bot"

\* The steps _get_service took among cs.
AuthSteps(cs) == Apis(CallsOf(cs, {"refresh", "flow", "dump", "build"}))

\* What _get_service may do for a stored token in state token, creds
\* telling whether the credentials file exists: the steps it takes, the
\* exception it raises and the token file's state afterwards.
ChosenByToken(token, creds, steps, exc, after) ==
    IF token = "valid"
    THEN steps = << "build" >> /\ after = token
    ELSE IF token = "expired_refreshable"
    THEN \/ steps = << "refresh", "dump", "build" >> /\ after = "valid"
         \/ steps = << "refresh" >> /\ exc # "none" /\ after = token
    ELSE IF ~creds
    THEN steps = << >> /\ exc = "FileNotFoundError" /\ after = token
    ELSE \/ steps = << "flow", "dump", "build" >> /\ after = "valid"
         \/ steps = << "flow" >> /\ exc # "none" /\ after = token

\* C20: _get_service chooses by the stored token's state alone: a valid
\* token is reused with no refresh, no authorization and no rewrite of the
\* token file; an expired token with a refresh token is refreshed, with no
\* authorization; in every other case authorization is started, or
\* FileNotFoundError raised with no token written when the credentials file
\* is missing; after a successful refresh or authorization the credential is
\* saved to the token path before the service is built.
C20_TokenStateDecides ==
    [][(gpc = "idle" /\ gpc' = "done")
       => ChosenByToken(tokenFile[PairOf(gop'.op)], credFile[PairOf(gop'.op)],
                        AuthSteps(gout'.calls), gout'.exc,
                        tokenFile'[PairOf(gop'.op)])]_vars

\* C20 witness: an operation that found the bot token expired, refreshed
\* it, saved it and built the service.
C20_Witness ==
    /\ gpc = "done"
    /\ gop.op = "search_events"
    /\ AuthSteps(gout.calls) = << "refresh", "dump", "build" >>
    /\ tokenFile["bot"] = "valid"
    /\ gout.exc = "none"

-----------------------------------------------------------------------------
(* The specification of one modify_event call in its two provider calls,   *)
(* the get and the update, while another client of the provider may write  *)
(* the event in between.                                                   *)

\* What another client may write to an event.
ExternalPatches ==
    {[location |-> "Room 2"], [summary |-> "Cancelled"],
     [description |-> "Bring slides"]}

\* updates of the calls followed step by step: no field, one field, every
\* field, and what a caller may get wrong.
ModifyUpdates ==
    {u \in GatewayUpdates :
        Cardinality(DOMAIN u) <= 1 \/ DOMAIN u = PatchFields}

\* modify_event up to its get (lines 240-243), with the service svc: the
\* event read when the get succeeds.
ModifyGet(svc, event_id, prov) ==
    IF svc.exc # "none" THEN RaiseT(svc.exc, svc.calls, svc.token)
    ELSE IF ~prov.getOk
    THEN RaiseT("HttpError",
                Append(svc.calls, [api |-> "get", via |-> svc.value,
                                   eventId |-> event_id, ok |-> FALSE,
                                   event |-> None]),
                svc.token)
    ELSE ReturnT(prov.event,
                 Append(svc.calls, [api |-> "get", via |-> svc.value,
                                    eventId |-> event_id, ok |-> TRUE,
                                    event |-> prov.event]),
                 svc.token)

\* An overlay onto the event as the provider holds it at the time of the
\* update.
StoredEvent(read, stored) == stored

\* The event lines 246-271 overlay: the local variable event, which holds
\* what the get returned (read), whatever the provider holds by then (stored).
FetchedEvent(read, stored) == read

\* The service handle modify_event holds after its get.
HeldService(out) ==
    [exc |-> "none", value |-> out.calls[Len(out.calls)].via,
     calls |-> out.calls, token |-> out.token]

InitModify ==
    /\ client = "None" /\ apiKey = ""
    /\ tokenFile \in {t \in [Pairs -> TokenStates] : t["user"] = "valid"}
    /\ credFile \in {c \in [Pairs -> BOOLEAN] : c["user"]}
    /\ pc = "idle" /\ request = NoRequest /\ outcome = NoOutcome
    /\ calendar \in InitialStores
    /\ gpc = "idle" /\ gop = NoGop /\ gout = NoGout
    /\ RouteIdle
    /\ ClientIdle
    /\ HostIdle

\* modify_event is called and issues its get; the call ends here when the
\* service cannot be had or the get fails.
ModifyRead ==
    /\ gpc = "idle" /\ calendar.writes < MaxWrites
    /\ \E event_id \in EventIds, updates \in ModifyUpdates, authOk \in BOOLEAN :
         /\ gop' = [op |-> "modify_event", event_id |-> event_id,
                    updates |-> updates]
         /\ gout' = ModifyGet(get_write_service(tokenFile, credFile, authOk),
                              event_id,
                              [getOk |-> event_id \in DOMAIN calendar.events,
                               event |-> Get(calendar.events, event_id, None)])
    /\ tokenFile' = [tokenFile EXCEPT !["bot"] = gout'.token]
    /\ gpc' = IF gout'.exc = "none" THEN "read" ELSE "done"
    /\ UNCHANGED <<client, apiKey, credFile, calendar, handleVars, routeVars, clientVars, hostVars>>

\* Another client writes the event between the get and the update.
ExternalChange ==
    /\ gpc = "read"
    /\ calendar.events[gop.event_id] = gout.value
    /\ \E patch \in ExternalPatches :
         /\ ApplyUpdates(gout.value, patch) # gout.value
         /\ calendar' = Stored(calendar, TRUE, gop.event_id,
                               ApplyUpdates(gout.value, patch))
    /\ UNCHANGED <<processVars, gpc, gop, gout, handleVars, routeVars, clientVars, hostVars>>

\* modify_event overlays the updates and issues its update.
ModifyWrite ==
    /\ gpc = "read"
    /\ \E ok \in BOOLEAN :
         gout' = PatchWith(HeldService(gout), gout.calls, gop.event_id,
                           gop.updates,
                           [event |-> FetchedEvent(gout.value,
                                                   calendar.events[gop.event_id]),
                            updateOk |-> ok])
    /\ calendar' = Stored(calendar, gout'.exc = "none", gop.event_id,
                          gout'.value)
    /\ gpc' = "done"
    /\ UNCHANGED <<processVars, gop, handleVars, routeVars, clientVars, hostVars>>

NextModify == ModifyRead \/ ExternalChange \/ ModifyWrite \/ GatewayReturn

SpecModify == InitModify /\ [][NextModify]_vars

-----------------------------------------------------------------------------
(* Properties of modify_event under external writes, checked under         *)
(* SpecModify.                                                             *)

\* The exceptions modify_event raises over its updates argument.
ArgumentErrors == {"TypeError", "AttributeError"}

\* C19: modify_event does not detect a write made to the event between its
\* get and its update: the update is issued whatever the provider holds by
\* then, and when the provider accepts it the event stored is the body
\* sent, which carries for every field not in the patch the value read
\* earlier, so that another client's change of such a field is overwritten.
C19_LastWriteWins ==
    [][(gpc = "read" /\ gpc' = "done")
       => /\ UpdatesOf(gout'.calls) # << >> <=> gout'.exc \notin ArgumentErrors
          /\ \A i \in 1..Len(UpdatesOf(gout'.calls)) :
                /\ UpdatesOf(gout'.calls)[i].ok <=> gout'.exc = "none"
                /\ UpdatesOf(gout'.calls)[i].ok
                      => calendar'.events[gop.event_id]
                            = UpdatesOf(gout'.calls)[i].body
                /\ \A f \in DOMAIN gout.value \ DOMAIN gop.updates :
                      /\ f \in DOMAIN UpdatesOf(gout'.calls)[i].body
                      /\ UpdatesOf(gout'.calls)[i].body[f] = gout.value[f]]_vars

\* C19 witness: the event was read with location "Room 1", another client
\* moved it to "Room 2", and the update of the summary alone has put
\* "Room 1" back.
C19_Witness ==
    /\ gpc = "done"
    /\ gout.exc = "none"
    /\ DOMAIN gop.updates = {"summary"}
    /\ GetsOf(gout.calls) # << >>
    /\ Get(GetsOf(gout.calls)[1].event, "location", "") = "Room 1"
    /\ calendar.writes = 2
    /\ calendar.events[gop.event_id]["location"] = "Room 1"
    /\ calendar.events[gop.event_id]["summary"] = "Tutor Hours"

-----------------------------------------------------------------------------
(* Feature keyword predicates.  A text is the sequence of its characters.  *)

\* The lower-case letter of each upper-case letter.
UpperToLower ==
    [A |-> "a", B |-> "b", C |-> "c", D |-> "d", E |-> "e", F |-> "f",
     G |-> "g", H |-> "h", I |-> "i", J |-> "j", K |-> "k", L |-> "l",
     M |-> "m", N |-> "n", O |-> "o", P |-> "p", Q |-> "q", R |-> "r",
     S |-> "s", T |-> "t", U |-> "u", V |-> "v", W |-> "w", X |-> "x",
     Y |-> "y", Z |-> "z"]

\* str.lower
lower(text) ==
    [i \in 1..Len(text) |->
        IF text[i] \in DOMAIN UpperToLower THEN UpperToLower[text[i]]
        ELSE text[i]]

\* keyword in text
Contains(text, keyword) == find(text, keyword) # 0

\* keywords of CalendarFeature.can_handle
CalendarKeywords ==
    << <<"m", "e", "e", "t", "i", "n", "g">>,
       <<"a", "p", "p", "o", "i", "n", "t", "m", "e", "n", "t">>,
       <<"s", "c", "h", "e", "d", "u", "l", "e">>,
       <<"c", "a", "l", "e", "n", "d", "a", "r">>,
       <<"e", "v", "e", "n", "t">>,
       <<"l", "u", "n", "c", "h">>,
       <<"d", "i", "n", "n", "e", "r">>,
       <<"c", "a", "l", "l">>,
       <<"t", "o", "m", "o", "r", "r", "o", "w">>,
       <<"t", "o", "d", "a", "y">>,
       <<"n", "e", "x", "t", " ", "w", "e", "e", "k">> >>

\* CalendarFeature.can_handle with the keywords sought in the text as typed.
CalendarFeature_can_handle_as_typed(message_text) ==
    \E i \in 1..Len(CalendarKeywords) :
        Contains(message_text, CalendarKeywords[i])

\* CalendarFeature.can_handle(message_text)
CalendarFeature_can_handle(message_text) ==
    \E i \in 1..Len(CalendarKeywords) :
        Contains(lower(message_text), CalendarKeywords[i])

\* conversational_keywords of ConversationFeature.can_handle
ConversationKeywords ==
    << <<"h", "e", "l", "l", "o">>,
       <<"h", "i">>,
       <<"h", "e", "y">>,
       <<"t", "h", "a", "n", "k", "s">>,
       <<"t", "h", "a", "n", "k", " ", "y", "o", "u">>,
       <<"h", "o", "w", " ", "a", "r", "e", " ", "y", "o", "u">>,
       <<"w", "h", "a", "t", "'", "s", " ", "u", "p">>,
       <<"s", "u", "p">>,
       <<"w", "h", "o", " ", "a", "r", "e", " ", "y", "o", "u">>,
       <<"w", "h", "a", "t", " ", "c", "a", "n", " ", "y", "o", "u", " ", "d", "o">>,
       <<"h", "e", "l", "p">> >>

\* ConversationFeature.can_handle(message_text)
ConversationFeature_can_handle(message_text) ==
    \E i \in 1..Len(ConversationKeywords) :
        Contains(lower(message_text), ConversationKeywords[i])

-----------------------------------------------------------------------------
(* The Intent Router (spec.md section 4.1), over the registry of           *)
(* tests/test_router.py.                                                   *)

NameCalendar == <<"C", "a", "l", "e", "n", "d", "a", "r">>
NameFunFact == <<"F", "u", "n", "F", "a", "c", "t">>
NameYouTube == <<"Y", "o", "u", "T", "u", "b", "e", " ", "D", "o", "w", "n", "l", "o", "a", "d", "e", "r">>
NameSearch == <<"S", "e", "a", "r", "c", "h">>
NameConversation == <<"C", "o", "n", "v", "e", "r", "s", "a", "t", "i", "o", "n">>

\* The registered features, in registration order.
Registry ==
    << NameCalendar, NameFunFact, NameYouTube, NameSearch, NameConversation >>

\* The designated default conversational handler.
DefaultFeature == NameConversation

\* The features whose can_handle is not in the source tree: their answers
\* are inputs of a route call.
Peers == {NameFunFact, NameYouTube, NameSearch}

\* feature.can_handle(text)
can_handle(feature, text, peers) ==
    IF feature = NameCalendar THEN CalendarFeature_can_handle(text)
    ELSE IF feature = NameConversation THEN ConversationFeature_can_handle(text)
    ELSE peers[feature]

\* The least element of a non-empty set of numbers.
Min(S) == CHOOSE i \in S : \A j \in S : i <= j

\* Step 3: the places of the registry whose name is answer, case ignored.
Lookup(answer) ==
    {i \in 1..Len(Registry) : lower(Registry[i]) = lower(answer)}

\* Steps 4 and 5 without the default: no feature when no predicate holds.
ScanOrNothing(hits) ==
    IF hits = {} THEN << >> ELSE Registry[Min(hits)]

\* Steps 4 and 5, hits being the places whose predicate holds: the first
\* of them, the default when there is none.
FirstOrDefault(hits) ==
    IF hits = {} THEN DefaultFeature ELSE Registry[Min(hits)]

\* Step 4: the keyword scan.
KeywordScan(text, peers) ==
    FirstOrDefault({i \in 1..Len(Registry) :
                       can_handle(Registry[i], text, peers)})

\* What route returns: the feature, and the model calls issued.
Routed(feature, text) ==
    [exc |-> "none", feature |-> feature,
     calls |-> << [api |-> "generate_content", message |-> text] >>]

\* route(messageText).  answer: what the model call does, [kind, text] with
\* kind "raise" or "text".
route(text, answer, peers) ==
    IF answer.kind = "text" /\ Lookup(answer.text) # {}
    THEN Routed(Registry[Min(Lookup(answer.text))], text)
    ELSE Routed(KeywordScan(text, peers), text)

\* Messages to route.
RouteMessages ==
    { <<"L", "u", "n", "c", "h">>,
      <<"t", "h", "i", "s">>,
      <<"r", "e", "c", "a", "l", "l">>,
      <<"h", "e", "y", " ", "t", "o", "d", "a", "y">>,
      <<"f", "a", "c", "t">>,
      <<"S", "U", "P">>,
      <<"n", "e", "x", "t", " ", "w", "e", "e", "k">>,
      << >> }

\* Answers of the model call.
RouteAnswers ==
    {[kind |-> "raise", text |-> << >>]}
    \cup {[kind |-> "text", text |-> t] :
            t \in { <<"C", "a", "l", "e", "n", "d", "a", "r">>,
                    <<"c", "a", "l", "e", "n", "d", "a", "r">>,
                    <<"S", "E", "A", "R", "C", "H">>,
                    <<"Y", "o", "u", "T", "u", "b", "e", " ", "D", "o", "w", "n", "l", "o", "a", "d", "e", "r">>,
                    <<"C", "o", "n", "v", "e", "r", "s", "a", "t", "i", "o", "n">>,
                    <<"f", "u", "n", "f", "a", "c", "t">>,
                    <<"W", "e", "a", "t", "h", "e", "r">>,
                    <<"C", "a", "l", "e", "n", "d", "a", "r", " ">>,
                    << >> }}

InitRoute ==
    /\ client = "None" /\ apiKey = ""
    /\ tokenFile = [p \in Pairs |-> "valid"]
    /\ credFile = [p \in Pairs |-> TRUE]
    /\ pc = "idle" /\ request = NoRequest /\ outcome = NoOutcome
    /\ GatewayIdle
    /\ RouteIdle
    /\ ClientIdle
    /\ HostIdle

\* One route call.
Route ==
    /\ rpc = "idle"
    /\ \E text \in RouteMessages, answer \in RouteAnswers,
          peers \in [Peers -> BOOLEAN] :
         /\ rin' = [message |-> text, answer |-> answer, peers |-> peers]
         /\ rout' = route(text, answer, peers)
    /\ rpc' = "done"
    /\ UNCHANGED <<processVars, handleVars, gatewayVars, clientVars, hostVars>>

\* The feature is handed to the transport, which calls its handle.
RouteReturn ==
    /\ rpc = "done"
    /\ rpc' = "idle" /\ rin' = NoRin /\ rout' = NoRout
    /\ UNCHANGED <<processVars, handleVars, gatewayVars, clientVars, hostVars>>

NextRoute == Route \/ RouteReturn

SpecRoute == InitRoute /\ [][NextRoute]_vars

-----------------------------------------------------------------------------
(* Properties of the Intent Router, checked under SpecRoute.               *)

\* C9: for any message and any behaviour of the model, route returns
\* exactly one feature, a registered feature or the default fallback; it
\* never returns null and never raises.
C9_RouteIsTotal ==
    rpc = "done"
    => /\ rout.exc = "none"
       /\ \/ \E i \in 1..Len(Registry) : rout.feature = Registry[i]
          \/ rout.feature = DefaultFeature

\* C9 witness: the model call failed and no predicate held; route returned
\* the default.
C9_Witness ==
    /\ rpc = "done"
    /\ rin.answer.kind = "raise"
    /\ rin.message = <<"f", "a", "c", "t">>
    /\ \A p \in Peers : ~rin.peers[p]
    /\ rout.feature = DefaultFeature

\* Text holds keyword, case of the text ignored.
Holds(text, keyword) ==
    \E i \in 1..Len(text) :
        /\ i + Len(keyword) - 1 <= Len(text)
        /\ \A j \in 1..Len(keyword) : lower(<< text[i + j - 1] >>) = << keyword[j] >>

\* The features whose keyword predicate is true of the routed message.
Willing ==
    {i \in 1..Len(Registry) :
        IF Registry[i] = NameCalendar
        THEN \E k \in 1..Len(CalendarKeywords) :
                Holds(rin.message, CalendarKeywords[k])
        ELSE IF Registry[i] = NameConversation
        THEN \E k \in 1..Len(ConversationKeywords) :
                Holds(rin.message, ConversationKeywords[k])
        ELSE rin.peers[Registry[i]]}

\* The model's answer is a registered name, case ignored.
AnswerNamesFeature ==
    /\ rin.answer.kind = "text"
    /\ \E i \in 1..Len(Registry) : lower(Registry[i]) = lower(rin.answer.text)

\* C10: when the model's answer equals a registered feature name ignoring
\* case, route returns that feature whatever the keyword predicates say;
\* otherwise (no such name, or a failed call) it returns the first feature
\* in registration order whose can_handle is true of the text, and the
\* default conversational handler when none is.
C10_AnswerThenKeywordScan ==
    rpc = "done"
    => IF AnswerNamesFeature
       THEN lower(rout.feature) = lower(rin.answer.text)
       ELSE IF Willing = {}
       THEN rout.feature = NameConversation
       ELSE \E i \in Willing :
               /\ rout.feature = Registry[i]
               /\ \A j \in Willing : i <= j

\* C10 witness: the answer names no feature, the text holds a keyword of
\* Calendar in capitals and Search is willing too; Calendar, registered
\* first, is returned.
C10_Witness ==
    /\ rpc = "done"
    /\ rin.answer = [kind |-> "text", text |-> <<"W", "e", "a", "t", "h", "e", "r">>]
    /\ rin.message = <<"L", "u", "n", "c", "h">>
    /\ rin.peers[NameSearch]
    /\ rout.feature = NameCalendar

-----------------------------------------------------------------------------
(* The specification of _get_client as the host's threads run it: the test *)
(* of the global, the construction of the client, the assignment to the    *)
(* global and the return are separate steps, and nothing in the module     *)
(* keeps two threads from taking them in turn.                             *)

\* The handles genai.Client(...) returns, one object per call.
Handles == <<TheClient, "client2", "client3", "client4">>

\* Constructions so far, over all modules.
Constructions(made) == made["calendar_feature"] + made["conversation_feature"]

\* The global _client of a module.
ClientOf(m) == IF m = "calendar_feature" THEN client ELSE conv_client

InitClient ==
    /\ client = "None"
    /\ apiKey \in {"", "key"}
    /\ tokenFile = [p \in Pairs |-> "valid"]
    /\ credFile = [p \in Pairs |-> TRUE]
    /\ pc = "idle" /\ request = NoRequest /\ outcome = NoOutcome
    /\ GatewayIdle
    /\ RouteIdle
    /\ ClientIdle
    /\ HostIdle

\* A request served by thread t calls _get_client() of a module.
Call(t) ==
    /\ threads[t].pc = "idle"
    /\ \E m \in Modules :
         threads' = [threads EXCEPT ![t] =
                        [IdleThread EXCEPT !.pc = "check", !.module = m]]
    /\ UNCHANGED <<processVars, handleVars, gatewayVars, routeVars,
                   conv_client, constructed, hostVars>>

\* if _client is None:
Check(t) ==
    /\ threads[t].pc = "check"
    /\ threads' = [threads EXCEPT ![t].pc =
                      IF ClientOf(threads[t].module) = "None"
                      THEN "construct" ELSE "return"]
    /\ UNCHANGED <<processVars, handleVars, gatewayVars, routeVars,
                   conv_client, constructed, hostVars>>

\* The construction done before the key is looked at: a client is made
\* also when the ValueError is raised.
ConstructBeforeKeyCheck(t) ==
    /\ threads[t].pc = "construct"
    /\ constructed' = [constructed EXCEPT ![threads[t].module] = @ + 1]
    /\ IF apiKey = ""
       THEN threads' = [threads EXCEPT ![t].pc = "done",
                                       ![t].exc = "ValueError"]
       ELSE threads' = [threads EXCEPT
                           ![t].pc = "assign",
                           ![t].new = Handles[Constructions(constructed) + 1]]
    /\ UNCHANGED <<processVars, handleVars, gatewayVars, routeVars,
                   conv_client, hostVars>>

\* api_key = os.getenv(...); raise ValueError without one; genai.Client(...)
Construct(t) ==
    /\ threads[t].pc = "construct"
    /\ IF apiKey = ""
       THEN /\ threads' = [threads EXCEPT ![t].pc = "done",
                                          ![t].exc = "ValueError"]
            /\ UNCHANGED constructed
       ELSE /\ threads' = [threads EXCEPT
                              ![t].pc = "assign",
                              ![t].new = Handles[Constructions(constructed) + 1]]
            /\ constructed' = [constructed EXCEPT ![threads[t].module] = @ + 1]
    /\ UNCHANGED <<processVars, handleVars, gatewayVars, routeVars,
                   conv_client, hostVars>>

\* _client = <the new client>
Assign(t) ==
    /\ threads[t].pc = "assign"
    /\ IF threads[t].module = "calendar_feature"
       THEN client' = threads[t].new /\ UNCHANGED conv_client
       ELSE conv_client' = threads[t].new /\ UNCHANGED client
    /\ threads' = [threads EXCEPT ![t].pc = "return"]
    /\ UNCHANGED <<apiKey, tokenFile, credFile, handleVars, gatewayVars,
                   routeVars, constructed, hostVars>>

\* return _client
Return(t) ==
    /\ threads[t].pc = "return"
    /\ threads' = [threads EXCEPT ![t].pc = "done",
                                  ![t].ret = ClientOf(threads[t].module)]
    /\ UNCHANGED <<processVars, handleVars, gatewayVars, routeVars,
                   conv_client, constructed, hostVars>>

\* The caller has used what _get_client gave it; the request is over.
Finish(t) ==
    /\ threads[t].pc = "done"
    /\ threads' = [threads EXCEPT ![t] = IdleThread]
    /\ UNCHANGED <<processVars, handleVars, gatewayVars, routeVars,
                   conv_client, constructed, hostVars>>

NextClient ==
    \/ \E t \in Threads :
          Call(t) \/ Check(t) \/ Construct(t) \/ Assign(t) \/ Return(t)
             \/ Finish(t)
    \/ SetApiKey

SpecClient == InitClient /\ [][NextClient]_vars

-----------------------------------------------------------------------------
(* Properties of _get_client under threads, checked under SpecClient.      *)

\* C16: the model client of a module is created at most once: whatever
\* requests have run, two of them at once included, genai.Client(...) has
\* been called at most once for the module, and two calls of _get_client
\* that have returned a handle of the module have returned the same one.
C16_ClientConstructedOnce ==
    /\ \A m \in Modules : constructed[m] <= 1
    /\ \A t, u \in Threads :
          (/\ threads[t].pc = "done" /\ threads[u].pc = "done"
           /\ threads[t].exc = "none" /\ threads[u].exc = "none"
           /\ threads[t].module = threads[u].module)
             => threads[t].ret = threads[u].ret

\* C24: a missing API key fails where the client is first asked for: while
\* the key is absent no client has been constructed and the handles are
\* uninitialised, every _get_client call that ends then ends with a
\* ValueError and returns no handle, and a call that ends without an
\* exception, the key being set by then, returns a constructed handle.
C24_MissingKeyFailsAtUse ==
    /\ apiKey = ""
          => \A m \in Modules : constructed[m] = 0 /\ ClientOf(m) = "None"
    /\ \A t \in Threads :
          threads[t].pc = "done"
             => /\ apiKey = "" => threads[t].exc = "ValueError"
                /\ threads[t].exc = "ValueError"
                      => threads[t].ret = "None" /\ threads[t].new = "None"
                /\ threads[t].exc = "none"
                      => /\ apiKey = "key"
                         /\ threads[t].ret # "None"
                         /\ constructed[threads[t].module] >= 1

\* C24 witness: one call of calendar_feature._get_client has raised the
\* ValueError, the key was set, and another call has returned the client.
C24_Witness ==
    /\ threads["t1"].pc = "done" /\ threads["t1"].exc = "ValueError"
    /\ threads["t1"].module = "calendar_feature"
    /\ threads["t2"].pc = "done" /\ threads["t2"].exc = "none"
    /\ threads["t2"].module = "calendar_feature"
    /\ threads["t2"].ret = TheClient
    /\ constructed["calendar_feature"] = 1

-----------------------------------------------------------------------------
(* The specification of create_calendar_event over drafts with every       *)
(* combination of the optional fields.                                     *)

\* The optional fields of event_data.
OptionalFields == {"description", "location", "recurrence", "reminders"}

\* event_data with the fields F of the optional ones.
DraftWith(F) ==
    [f \in {"summary", "start", "end"} \cup F |->
        CASE f = "summary"     -> "Lunch with Sarah"
          [] f = "start"       -> DateTime(840)
          [] f = "end"         -> DateTime(900)
          [] f = "description" -> "Discuss plans"
          [] f = "location"    -> "Cafe"
          [] f = "recurrence"  -> Weekly
          [] f = "reminders"   -> Popup60]

CreateDrafts == {DraftWith(F) : F \in SUBSET OptionalFields}

InitCreate ==
    /\ client = "None" /\ apiKey = ""
    /\ tokenFile \in {t \in [Pairs -> TokenStates] : t["user"] = "valid"}
    /\ credFile \in {c \in [Pairs -> BOOLEAN] : c["user"]}
    /\ pc = "idle" /\ request = NoRequest /\ outcome = NoOutcome
    /\ calendar = [events |-> [i \in {"e1"} |-> OfficeHours1], writes |-> 0]
    /\ gpc = "idle" /\ gop = NoGop /\ gout = NoGout
    /\ RouteIdle
    /\ ClientIdle
    /\ HostIdle

\* One create_calendar_event call with one of the drafts.
CreateDraft ==
    /\ gpc = "idle" /\ calendar.writes < MaxWrites
    /\ \E event_data \in CreateDrafts, authOk, ok \in BOOLEAN,
          id \in NewIds \ DOMAIN calendar.events :
         /\ gop' = [op |-> "create_calendar_event", event_data |-> event_data]
         /\ gout' = create_calendar_event(event_data, tokenFile, credFile,
                                          authOk, [ok |-> ok, id |-> id])
         /\ calendar' = Stored(calendar, gout'.exc = "none", id, gout'.value)
    /\ tokenFile' = [tokenFile EXCEPT !["bot"] = gout'.token]
    /\ gpc' = "done"
    /\ UNCHANGED <<client, apiKey, credFile, handleVars, routeVars, clientVars, hostVars>>

NextCreate == CreateDraft \/ GatewayReturn

SpecCreate == InitCreate /\ [][NextCreate]_vars

-----------------------------------------------------------------------------
(* Properties of create_calendar_event, checked under SpecCreate.          *)

\* The insert calls among cs.
InsertsOf(cs) == SelectSeq(cs, LAMBDA c : c.api = "insert")

\* The ISO text of the model's datetimes.
IsoText(x) ==
    CASE x.v = 840 -> "2026-02-18T14:00:00"
      [] x.v = 900 -> "2026-02-18T15:00:00"
      [] x.v = 960 -> "2026-02-18T16:00:00"

\* body is the insert request the contract prescribes for event_data.
RequestOf(body, event_data) ==
    /\ DOMAIN body = {"summary", "start", "end", "reminders"}
                        \cup (DOMAIN event_data
                                \cap {"description", "location", "recurrence"})
    /\ body["summary"] = event_data["summary"]
    /\ body["start"] = [dateTime |-> IsoText(event_data["start"]),
                        timeZone |-> "America/Los_Angeles"]
    /\ body["end"] = [dateTime |-> IsoText(event_data["end"]),
                      timeZone |-> "America/Los_Angeles"]
    /\ \A f \in DOMAIN event_data \cap {"description", "location"} :
          body[f] = event_data[f]
    /\ "recurrence" \in DOMAIN event_data
          => body["recurrence"] = << event_data["recurrence"] >>
    /\ body["reminders"] = IF "reminders" \in DOMAIN event_data
                           THEN event_data["reminders"]
                           ELSE [useDefault |-> TRUE]

\* C22: every insert request create_calendar_event sends carries the
\* draft's summary, its start and end in the timezone America/Los_Angeles,
\* description, location and recurrence exactly when the draft has them
\* (recurrence as a one-element list), and as reminders the draft's or,
\* when it has none, {useDefault: true}.
C22_InsertRequestFromDraft ==
    (gpc = "done" /\ gop.op = "create_calendar_event")
       => \A i \in 1..Len(InsertsOf(gout.calls)) :
             RequestOf(InsertsOf(gout.calls)[i].body, gop.event_data)

\* C22 witness: a draft with a location and no reminders was inserted with
\* the location and the provider's default reminders, and no description.
C22_Witness ==
    /\ gpc = "done" /\ gop.op = "create_calendar_event"
    /\ DOMAIN gop.event_data = {"summary", "start", "end", "location"}
    /\ gout.exc = "none"
    /\ InsertsOf(gout.calls) # << >>
    /\ InsertsOf(gout.calls)[1].body["reminders"] = [useDefault |-> TRUE]
    /\ InsertsOf(gout.calls)[1].body["location"] = "Cafe"
    /\ "description" \notin DOMAIN InsertsOf(gout.calls)[1].body

-----------------------------------------------------------------------------
(* Transport adapters: the webhook of app.py and main of bot.py.  The      *)
(* message handler (services.whatsapp_handler) and the bot class           *)
(* (services.discord_handler) are outside the sources; what they return or *)
(* raise is an input.                                                      *)

\* The characters str.strip() removes.
Whitespace == {" ", "\t", "\n"}

RECURSIVE lstrip_ws(_)
lstrip_ws(text) ==
    IF text # << >> /\ Head(text) \in Whitespace
    THEN lstrip_ws(Tail(text)) ELSE text

RECURSIVE rstrip_ws(_)
rstrip_ws(text) ==
    IF text # << >> /\ text[Len(text)] \in Whitespace
    THEN rstrip_ws(SubSeq(text, 1, Len(text) - 1)) ELSE text

\* request.values.get('Body', '').strip()
incoming_msg(form) == rstrip_ws(lstrip_ws(Get(form, "Body", << >>)))

\* request.values.get('From', '')
sender(form) == Get(form, "From", << >>)

\* str(response) of what the handler returned.
str(response) ==
    IF response.kind = "text" THEN response.text ELSE <<"N", "o", "n", "e">>

\* The response to a message: the handler is called with msg and did is
\* what it does.
Answered200or500(msg, from, did) ==
    IF did.kind = "raise"
    THEN [status |-> 500, body |-> << >>,
          invoked |-> << [incoming_msg |-> msg, sender |-> from, did |-> did] >>]
    ELSE [status |-> 200, body |-> str(did),
          invoked |-> << [incoming_msg |-> msg, sender |-> from, did |-> did] >>]

\* webhook() that takes the Body as sent.
webhook_unstripped(form, did) ==
    IF Get(form, "Body", << >>) = << >>
    THEN [status |-> 200, body |-> << >>, invoked |-> << >>]
    ELSE Answered200or500(Get(form, "Body", << >>), sender(form), did)

\* webhook() of app.py, for the form of the request.
webhook(form, did) ==
    IF incoming_msg(form) = << >>
    THEN [status |-> 200, body |-> << >>, invoked |-> << >>]
    ELSE Answered200or500(incoming_msg(form), sender(form), did)

\* health() of app.py
health == [status |-> 200, json |-> [status |-> "healthy"], invoked |-> << >>]

\* The lines main prints without a token.
TokenMissingLog ==
    << "Error: DISCORD_BOT_TOKEN not found in environment variables",
       "Please set it in your .env file" >>

\* The calls of main after the token check, up to the one that raises:
\* env says which of AssistantBot(), setup_bot_commands(bot) raises, if any.
StartBot(token, env) ==
    IF env = "construct_raises"
    THEN [exc |-> "Exception", token |-> token, log |-> << >>,
          calls |-> << [api |-> "AssistantBot"] >>]
    ELSE IF env = "setup_raises"
    THEN [exc |-> "Exception", token |-> token, log |-> << >>,
          calls |-> << [api |-> "AssistantBot"],
                       [api |-> "setup_bot_commands"] >>]
    ELSE [exc |-> "none", token |-> token,
          log |-> << "Starting Discord assistant bot..." >>,
          calls |-> << [api |-> "AssistantBot"],
                       [api |-> "setup_bot_commands"],
                       [api |-> "run", token |-> token] >>]

\* main() that takes every token but None.
main_unless_None(token, env) ==
    IF token = "None"
    THEN [exc |-> "none", token |-> token, log |-> TokenMissingLog,
          calls |-> << >>]
    ELSE StartBot(token, env)

\* main() of bot.py up to bot.run: token is what os.getenv gave.
main(token, env) ==
    IF token \in {"None", ""}
    THEN [exc |-> "none", token |-> token, log |-> TokenMissingLog,
          calls |-> << >>]
    ELSE StartBot(token, env)

\* The forms a POST to /webhook may carry.
Bodies ==
    { << >>, <<" ">>, <<" ", "\n", " ">>, <<"h", "i">>, <<" ", "h", "i", " ">>,
      <<"l", "u", "n", "c", "h", " ", "a", "t", " ", "1">> }
Senders == { <<"+", "1">>, <<"+", "2">> }
Forms ==
    {[f \in {"Body", "From"} |-> IF f = "Body" THEN b ELSE s] :
        b \in Bodies, s \in Senders}
    \cup {[f \in {"From"} |-> s] : s \in Senders}
    \cup {[f \in {"Body"} |-> b] : b \in Bodies}

\* What the message handler may do.
HandlerOutcomes ==
    {[kind |-> "text", text |-> <<"O", "K">>],
     [kind |-> "text", text |-> << >>],
     [kind |-> "None"],
     [kind |-> "raise", exc |-> "KeyError"]}

\* The values of DISCORD_BOT_TOKEN: unset, empty, set.
BotTokens == {"None", "", "token"}
\* What the bot class does when main starts it.
BotEnvs == {"starts", "construct_raises", "setup_raises"}

InitTransport ==
    /\ client = "None" /\ apiKey = ""
    /\ tokenFile = [p \in Pairs |-> "valid"]
    /\ credFile = [p \in Pairs |-> TRUE]
    /\ pc = "idle" /\ request = NoRequest /\ outcome = NoOutcome
    /\ GatewayIdle
    /\ RouteIdle
    /\ ClientIdle
    /\ wpc = "idle" /\ wreq = NoWreq /\ wresp = NoWresp
    /\ discordToken \in BotTokens /\ mpc = "stopped" /\ mout = NoMout
    /\ cpc = "idle" /\ cin = NoCin /\ cout = NoCout
    /\ earlier = NoEarlier

\* One POST to /webhook.
Webhook ==
    /\ wpc = "idle"
    /\ \E form \in Forms, did \in HandlerOutcomes :
         /\ wreq' = [route |-> "webhook", form |-> form]
         /\ wresp' = webhook(form, did)
    /\ wpc' = "done"
    /\ UNCHANGED <<processVars, handleVars, gatewayVars, routeVars, clientVars,
                   mainVars, chatVars, earlier>>

\* One GET of /health.
Health ==
    /\ wpc = "idle"
    /\ wreq' = [route |-> "health"]
    /\ wresp' = health
    /\ wpc' = "done"
    /\ UNCHANGED <<processVars, handleVars, gatewayVars, routeVars, clientVars,
                   mainVars, chatVars, earlier>>

\* The response is sent.
WebhookReturn ==
    /\ wpc = "done"
    /\ wpc' = "idle" /\ wreq' = NoWreq /\ wresp' = NoWresp
    /\ UNCHANGED <<processVars, handleVars, gatewayVars, routeVars, clientVars,
                   mainVars, chatVars, earlier>>

\* The bot process is started: main runs up to bot.run(token), or to its
\* return, or to the call that raises.
Main ==
    /\ mpc = "stopped"
    /\ \E env \in BotEnvs : mout' = main(discordToken, env)
    /\ mpc' = IF mout'.exc = "none" /\ mout'.calls # << >>
              THEN "running" ELSE "exited"
    /\ UNCHANGED <<processVars, handleVars, gatewayVars, routeVars, clientVars,
                   webhookVars, discordToken, chatVars, earlier>>

\* bot.run returns (the bot was closed) or raises; main ends.
BotStops ==
    /\ mpc = "running"
    /\ \E e \in {"none", "LoginFailure"} : mout' = [mout EXCEPT !.exc = e]
    /\ mpc' = "exited"
    /\ UNCHANGED <<processVars, handleVars, gatewayVars, routeVars, clientVars,
                   webhookVars, discordToken, chatVars, earlier>>

\* The operator edits .env; the process can be started again.
SetBotToken ==
    /\ mpc = "exited"
    /\ \E t \in BotTokens \ {discordToken} : discordToken' = t
    /\ mpc' = "stopped" /\ mout' = NoMout
    /\ UNCHANGED <<processVars, handleVars, gatewayVars, routeVars, clientVars,
                   webhookVars, chatVars, earlier>>

NextTransport ==
    Webhook \/ Health \/ WebhookReturn \/ Main \/ BotStops \/ SetBotToken

SpecTransport == InitTransport /\ [][NextTransport]_vars

-----------------------------------------------------------------------------
(* Properties of the transports, checked under SpecTransport.              *)

\* The Body the request carries ('' when it carries none).
BodySent == Get(wreq.form, "Body", << >>)

\* The Body is empty or only whitespace.
BlankBody == \A i \in 1..Len(BodySent) : BodySent[i] \in Whitespace

\* C21: the webhook answers a request whose Body is empty or only
\* whitespace with an empty body and status 200 without invoking the
\* message handler; else it invokes the handler once, and answers with an
\* empty body and status 500 when the handler raises and with the
\* handler's text and status 200 when it returns; the health endpoint
\* answers with the fixed healthy status and 200.
C21_WebhookResponses ==
    /\ (wpc = "done" /\ wreq.route = "webhook")
          => /\ BlankBody
                => /\ wresp.status = 200 /\ wresp.body = << >>
                   /\ wresp.invoked = << >>
             /\ ~BlankBody
                => /\ Len(wresp.invoked) = 1
                   /\ wresp.invoked[1].did.kind = "raise"
                         => wresp.status = 500 /\ wresp.body = << >>
                   /\ wresp.invoked[1].did.kind # "raise"
                         => wresp.status = 200
                   /\ wresp.invoked[1].did.kind = "text"
                         => wresp.body = wresp.invoked[1].did.text
    /\ (wpc = "done" /\ wreq.route = "health")
          => /\ wresp.status = 200
             /\ wresp.json = [status |-> "healthy"]
             /\ wresp.invoked = << >>

\* C21 witness: a Body of whitespace alone was answered with an empty 200
\* and no handler call.
C21_Witness ==
    /\ wpc = "done" /\ wreq.route = "webhook"
    /\ BodySent = <<" ", "\n", " ">>
    /\ wresp.status = 200 /\ wresp.body = << >> /\ wresp.invoked = << >>

\* C23: when DISCORD_BOT_TOKEN is absent or empty, main prints the error
\* and returns: the bot is not constructed, its commands are not set up
\* and run is not called.
C23_NoTokenNoBot ==
    (mpc # "stopped" /\ mout.token \in {"None", ""})
       => /\ mpc = "exited"
          /\ mout.exc = "none"
          /\ mout.calls = << >>
          /\ mout.log = TokenMissingLog

\* C23 witness: main has run with an empty token and exited.
C23_Witness ==
    /\ mpc = "exited" /\ discordToken = "" /\ mout.token = ""
    /\ mout.calls = << >> /\ mout.log # << >>

-----------------------------------------------------------------------------
(* The specification of CalendarFeature.handle called again with the       *)
(* inputs of an earlier call, other messages being handled in between.     *)
(* The environment does not change by itself here: what differs at the     *)
(* later call is what the calls before it left behind.                     *)

\* Most handle calls between the two that are compared.
MaxBetween == 1

\* What the model answers in these calls: a create request, a modify
\* request, and a failure of the call.
AgainResponses ==
    {r \in Responses :
        \/ r.kind = "raise"
        \/ /\ r.kind = "text" /\ r.text = Render("bare", r.doc)
           /\ r.doc \in {[action |-> "create",
                          events |-> List(<< DraftMeeting >>)],
                         [action |-> "modify", search_query |-> "office hours",
                          updates |-> [summary |-> "Tutor Hours"]]}}

\* What the provider answers: every answer to the authorization, to the
\* insert and to the search, which finds nothing or the first stored event,
\* and to the update.
AgainEnvs(r) ==
    {e \in Envs(r, "expired_refreshable") :
        /\ e.matches \in {<< >>, << OfficeHours1 >>}
        /\ \A i \in DOMAIN e.outcomes : e.outcomes[i] # "get_fails"}

\* The earlier call, from the message to the reply.
HandleEarlier ==
    /\ pc = "idle" /\ earlier.phase = "none"
    /\ \E m \in Messages, r \in AgainResponses :
         \E e \in AgainEnvs(r) :
            earlier' = [phase |-> "first", between |-> 0,
                        request |-> [message |-> m, response |-> r, env |-> e],
                        token |-> tokenFile["bot"], tokenAgain |-> "none",
                        outcome |-> handle(m, client, apiKey, tokenFile,
                                           credFile, r, Provider(e))]
    /\ client' = earlier'.outcome.client
    /\ constructed' =
          [constructed EXCEPT !["calendar_feature"] =
              @ + _get_client(client, apiKey).constructed]
    /\ tokenFile' = [tokenFile EXCEPT !["bot"] = earlier'.outcome.token]
    /\ UNCHANGED <<apiKey, credFile, handleVars, gatewayVars, routeVars,
                   conv_client, threads, webhookVars, mainVars, chatVars>>

\* A call in between, with any message and any answers.
HandleBetween ==
    /\ pc = "idle" /\ earlier.phase = "first" /\ earlier.between < MaxBetween
    /\ \E m \in Messages, r \in AgainResponses :
         \E e \in AgainEnvs(r) :
            /\ request' = [message |-> m, response |-> r, env |-> e]
            /\ outcome' = handle(m, client, apiKey, tokenFile, credFile, r,
                                 Provider(e))
    /\ client' = outcome'.client
    /\ constructed' =
          [constructed EXCEPT !["calendar_feature"] =
              @ + _get_client(client, apiKey).constructed]
    /\ tokenFile' = [tokenFile EXCEPT !["bot"] = outcome'.token]
    /\ pc' = "done"
    /\ earlier' = [earlier EXCEPT !.between = @ + 1]
    /\ UNCHANGED <<apiKey, credFile, gatewayVars, routeVars, conv_client,
                   threads, webhookVars, mainVars, chatVars>>

\* The later call, with the message and the answers of the earlier one.
HandleAgain ==
    /\ pc = "idle" /\ earlier.phase = "first"
    /\ request' = earlier.request
    /\ outcome' = handle(earlier.request.message, client, apiKey, tokenFile,
                         credFile, earlier.request.response,
                         Provider(earlier.request.env))
    /\ client' = outcome'.client
    /\ constructed' =
          [constructed EXCEPT !["calendar_feature"] =
              @ + _get_client(client, apiKey).constructed]
    /\ tokenFile' = [tokenFile EXCEPT !["bot"] = outcome'.token]
    /\ pc' = "done"
    /\ earlier' = [earlier EXCEPT !.phase = "again",
                                  !.tokenAgain = tokenFile["bot"]]
    /\ UNCHANGED <<apiKey, credFile, gatewayVars, routeVars, conv_client,
                   threads, webhookVars, mainVars, chatVars>>

NextAgain == HandleEarlier \/ HandleBetween \/ Reply \/ HandleAgain

SpecAgain == Init /\ [][NextAgain]_vars

-----------------------------------------------------------------------------
(* Properties of repeated handle calls, checked under SpecAgain.           *)

\* The calendar calls of a handle call: those of the Gateway's operations
\* and of the provider's calendar API.
CalendarCalls(cs) ==
    CallsOf(cs, {"create_calendar_event", "search_events", "modify_event",
                 "insert", "list", "get", "update"})

\* The later call has returned.
Compared == pc = "done" /\ earlier.phase = "again"

\* C26 as stated: apart from the client handle, two handle calls given the
\* same message, the same model response and the same calendar responses
\* issue the same calendar calls and return the same reply, whatever was
\* handled in between.
C26_SameInputsSameHandling ==
    Compared
       => /\ CalendarCalls(outcome.calls) = CalendarCalls(earlier.outcome.calls)
          /\ outcome.reply = earlier.outcome.reply

\* C26 amended: apart from the client handle and the bot's saved token, the
\* handling of a message leaves nothing behind: two handle calls given the
\* same message, the same model response and the same calendar responses,
\* and finding the token file in the same state, issue the same calendar
\* and authorization calls and return the same reply, whatever was handled
\* in between and whether or not it failed.
C26_SameInputsSameTokenSameHandling ==
    (Compared /\ earlier.tokenAgain = earlier.token)
       => /\ CallsOf(outcome.calls, CalendarApis)
                = CallsOf(earlier.outcome.calls, CalendarApis)
          /\ outcome.reply = earlier.outcome.reply

\* C26 witness: a create request was handled, then a request whose
\* handling failed at the model call, then the first again, with the same
\* reply; the token file was valid throughout.
C26_Witness ==
    /\ Compared
    /\ earlier.between = 1
    /\ earlier.token = "valid" /\ earlier.tokenAgain = "valid"
    /\ earlier.outcome.reply.kind = "created_one"
    /\ outcome.reply = earlier.outcome.reply
    /\ CalendarCalls(outcome.calls) # << >>

-----------------------------------------------------------------------------
(* The Conversation Feature: ConversationFeature.handle, with the          *)
(* _get_client and the global _client of conversation_feature.py.          *)

\* The words the fallback looks for, in the order of its branches.
GreetingWords == { <<"h", "e", "l", "l", "o">>, <<"h", "i">>, <<"h", "e", "y">> }
ThankWords == { <<"t", "h", "a", "n", "k">> }
HowAreYouWords == { <<"h", "o", "w", " ", "a", "r", "e", " ", "y", "o", "u">>, <<"w", "h", "a", "t", "'", "s", " ", "u", "p">> }

\* any(w in lower_text for w in words)
AnyIn(lower_text, words) == \E w \in words : Contains(lower_text, w)

\* The canned replies of the fallback.
GreetingReply ==
    [kind |-> "greeting",
     canned |-> "Hello! I'm Alfred. How can I help you stay organized today?"]
ThanksReply ==
    [kind |-> "thanks",
     canned |-> "You're welcome! Let me know if you need anything else."]
HowAreYouReply ==
    [kind |-> "how_are_you",
     canned |-> "I'm doing great! Ready to help you manage your calendar. What do you need?"]
DefaultReply ==
    [kind |-> "default",
     canned |-> "I'm here to help! Right now I can create calendar events from natural language. What would you like to schedule?"]

\* The fallback that looks for the thanks first.
FallbackThanksFirst(lower_text) ==
    IF AnyIn(lower_text, ThankWords) THEN ThanksReply
    ELSE IF AnyIn(lower_text, GreetingWords) THEN GreetingReply
    ELSE IF AnyIn(lower_text, HowAreYouWords) THEN HowAreYouReply
    ELSE DefaultReply

\* Lines 127-135: the reply of the except clause.
Fallback(lower_text) ==
    IF AnyIn(lower_text, GreetingWords) THEN GreetingReply
    ELSE IF AnyIn(lower_text, ThankWords) THEN ThanksReply
    ELSE IF AnyIn(lower_text, HowAreYouWords) THEN HowAreYouReply
    ELSE DefaultReply

\* What handle did: the reply, the calls issued, _client afterwards.
Chatted(reply, cs, gc) ==
    [exc |-> "none", reply |-> reply, calls |-> cs, client |-> gc.client]

\* handle from line 86 on, gc being what _get_client did: an exception of
\* _get_client, of the loop over a context whose entries are no triples,
\* of the model call or of response.text.strip() ends in the fallback.
ChatWith(gc, message_text, context, response) ==
    IF gc.exc # "none"
    THEN Chatted(Fallback(lower(message_text)), << >>, gc)
    ELSE IF context = "malformed"
    THEN Chatted(Fallback(lower(message_text)), << >>, gc)
    ELSE IF response.kind # "text"
    THEN Chatted(Fallback(lower(message_text)),
                 << [api |-> "generate_content", model |-> "gemini-2.5-flash",
                     message |-> message_text] >>, gc)
    ELSE Chatted([kind |-> "model",
                  text |-> rstrip_ws(lstrip_ws(response.text))],
                 << [api |-> "generate_content", model |-> "gemini-2.5-flash",
                     message |-> message_text] >>, gc)

\* ConversationFeature.handle(message, message_text, context).
ConversationFeature_handle(message_text, cl, key, context, response) ==
    ChatWith(_get_client(cl, key), message_text, context, response)

\* The messages, the contexts and what the model call does: it raises, it
\* returns a response without text, it returns a text.
ChatMessages ==
    { <<"h", "e", "l", "l", "o", " ", "t", "h", "e", "r", "e">>,
      <<"t", "h", "i", "s", " ", "o", "n", "e">>,
      <<"h", "e", "y", " ", "t", "h", "a", "n", "k", "s">>,
      <<"T", "h", "a", "n", "k", "s", "!">>,
      <<"T", "H", "A", "N", "K", " ", "Y", "O", "U">>,
      <<"t", "h", "a", "n", "k", " ", "y", "o", "u", ",", " ", "h", "o", "w", " ", "a", "r", "e", " ", "y", "o", "u">>,
      <<"H", "o", "w", " ", "a", "r", "e", " ", "y", "o", "u", "?">>,
      <<"w", "h", "a", "t", "'", "s", " ", "u", "p">>,
      <<"a", "n", "y", "t", "h", "i", "n", "g", " ", "n", "e", "w">>,
      <<"w", "e", "a", "t", "h", "e", "r">> }
ChatContexts == {"None", "turns", "malformed"}
ChatResponses ==
    {[kind |-> "raise"], [kind |-> "no_text"],
     [kind |-> "text", text |-> <<" ", "H", "a", "p", "p", "y", " ", "t", "o", " ", "h", "e", "l", "p", ".", " ">>],
     [kind |-> "text", text |-> << >>]}

InitChat ==
    /\ client = "None"
    /\ apiKey \in {"", "key"}
    /\ tokenFile = [p \in Pairs |-> "valid"]
    /\ credFile = [p \in Pairs |-> TRUE]
    /\ pc = "idle" /\ request = NoRequest /\ outcome = NoOutcome
    /\ GatewayIdle
    /\ RouteIdle
    /\ ClientIdle
    /\ HostIdle

\* One ConversationFeature.handle call.
Converse ==
    /\ cpc = "idle"
    /\ \E m \in ChatMessages, c \in ChatContexts, r \in ChatResponses :
         /\ cin' = [message_text |-> m, context |-> c, response |-> r]
         /\ cout' = ConversationFeature_handle(m, conv_client, apiKey, c, r)
    /\ conv_client' = cout'.client
    /\ constructed' =
          [constructed EXCEPT !["conversation_feature"] =
              @ + _get_client(conv_client, apiKey).constructed]
    /\ cpc' = "done"
    /\ UNCHANGED <<processVars, handleVars, gatewayVars, routeVars, threads,
                   webhookVars, mainVars, earlier>>

\* The transport posts the reply.
ConverseReturn ==
    /\ cpc = "done"
    /\ cpc' = "idle" /\ cin' = NoCin /\ cout' = NoCout
    /\ UNCHANGED <<processVars, handleVars, gatewayVars, routeVars, clientVars,
                   webhookVars, mainVars, earlier>>

NextChat == Converse \/ ConverseReturn \/ SetApiKey

SpecChat == InitChat /\ [][NextChat]_vars

-----------------------------------------------------------------------------
(* Properties of the Conversation Feature, checked under SpecChat.         *)

\* The lower-cased message of the call contains the word.
Says(word) == Contains(lower(cin.message_text), word)

\* The model client could not be obtained, or the model call failed.
ModelFailed ==
    \/ cout.client = "None"
    \/ cin.response.kind = "raise"

\* C27: ConversationFeature.handle returns a text reply for every message
\* and no exception leaves it; when the model client cannot be obtained or
\* the model call fails the reply is the canned one chosen in this order
\* over the lower-cased message: the greeting if it contains 'hello', 'hi'
\* or 'hey', else the thanks if it contains 'thank', else the how-are-you
\* reply if it contains 'how are you' or "what's up", else the default.
C27_ConversationAlwaysReplies ==
    cpc = "done"
       => /\ cout.exc = "none"
          /\ cout.reply.kind \in {"model", "greeting", "thanks", "how_are_you",
                                  "default"}
          /\ ModelFailed
                => cout.reply.kind =
                      IF Says(<<"h", "e", "l", "l", "o">>) \/ Says(<<"h", "i">>) \/ Says(<<"h", "e", "y">>)
                      THEN "greeting"
                      ELSE IF Says(<<"t", "h", "a", "n", "k">>) THEN "thanks"
                      ELSE IF Says(<<"h", "o", "w", " ", "a", "r", "e", " ", "y", "o", "u">>) \/ Says(<<"w", "h", "a", "t", "'", "s", " ", "u", "p">>)
                      THEN "how_are_you"
                      ELSE "default"

\* C27 witness: the model call raised on a message with 'thank' and
\* without any greeting word, and the thanks reply was returned.
C27_Witness ==
    /\ cpc = "done"
    /\ cin.response.kind = "raise"
    /\ cout.client # "None"
    /\ cin.message_text = <<"T", "H", "A", "N", "K", " ", "Y", "O", "U">>
    /\ cout.reply = ThanksReply

=============================================================================
